---- MODULE Spec2Model ----
(***************************************************************************)
(* Model of the ingestion pipeline of historic-gb-generation-mix:          *)
(*   ingest/load.py      the store (upsert_rows, get_max_dt)               *)
(*   ingest/client.py    the fetcher (build_sql, fetch_sql, iter_window)   *)
(*   ingest/validate.py  the validator (validate_raw)                      *)
(*   ingest/transform.py the transformer (to_row)                          *)
(*   ingest/run.py       the orchestrator (run)                            *)
(* and of two runs writing to the store at the same time (SpecConc).       *)
(* Timestamps are integers (instants on a discrete UTC time line).  The    *)
(* 29 numeric warehouse columns are represented by two of them, gas_mw and *)
(* coal_mw; the table also carries ingested_at, as in db/models.py.        *)
(***************************************************************************)
EXTENDS Integers, Sequences, FiniteSets, TLC

\* ------------------------------------------------------------------ time
\* The time unit of the model is 30 minutes: timedelta(minutes=30).
CUSHION == 1
\* timedelta(hours=1).
HOUR == 2
\* timedelta(days=1), scaled down to two hours.
DAY == 4

\* A timestamp as text: the wall-clock reading and the zone designator that
\* follows it ("Z", an offset, or nothing).
IsoString(t, suffix) == [kind |-> "str", local |-> t, suffix |-> suffix]

\* A datetime object: the wall-clock reading and its tzinfo; Naive is
\* tzinfo None.
Naive == "naive"
UTC == "UTC"
PlusOne == "+01:00"
DateTime(t, tz) == [kind |-> "datetime", local |-> t, tz |-> tz]

\* The UTC offset of a zone; PostgreSQL reads a naive value in the session
\* time zone, UTC here.
Offset(tz) == IF tz = PlusOne THEN HOUR ELSE 0

\* The instant a datetime denotes, as stored in a TIMESTAMP(timezone=True)
\* column.
Instant(dt) == dt.local - Offset(dt.tz)

\* ------------------------------------------------------------------ bounds
\* Timestamps of the model are 1..MaxT.
MaxT == 2
\* Longest batch handed directly to upsert_rows.
MaxBatch == 2
\* The database clock now() runs over 0..MaxClock.
MaxClock == 1

\* Upstream timestamps of the fetcher's model are 1..MaxUp.
MaxUp == 5
\* Page sizes (batch_size) run over 1..MaxPage.
MaxPage == 2

Times == 1..MaxT
UpTimes == 1..MaxUp

\* SQL NULL / Python None in a numeric column.
NULL == "null"

\* ------------------------------------------------------------------ schema
\* db/models.py: primary key, numeric columns, ingestion metadata.
KeyCol == "datetime_utc"
MetricCols == {"gas_mw", "coal_mw"}
MetaCol == "ingested_at"
TableCols == {KeyCol} \cup MetricCols \cup {MetaCol}

\* Values a numeric column takes in the model.
Vals == {NULL, "100.0", "150.0"}

\* Rows as run.py builds them: datetime_utc plus every warehouse column.
BatchRow(t, g, c) == [datetime_utc |-> t, gas_mw |-> g, coal_mw |-> c]

\* The (gas_mw, coal_mw) pairs of the rows handed to upsert_rows.
RowPool ==
    { BatchRow(t, p[1], p[2]) :
        t \in Times, p \in {<<"100.0", "150.0">>, <<"150.0", NULL>>} }

RECURSIVE SeqsUpTo(_, _)
SeqsUpTo(S, n) ==
    IF n = 0 THEN {<<>>}
    ELSE LET shorter == SeqsUpTo(S, n - 1)
         IN  shorter \cup { Append(s, x) : s \in {q \in shorter : Len(q) = n - 1}, x \in S }

Batches == SeqsUpTo(RowPool, MaxBatch)

\* ------------------------------------------------------------------ store
\* A row inserted by INSERT (cols) VALUES (...): columns that the statement
\* does not name take their defaults (NULL, and now() for ingested_at).
InsertedRow(cols, row, now) ==
    [c \in TableCols |->
        IF c \in cols THEN row[c]
        ELSE IF c = MetaCol THEN now
        ELSE NULL]

\* Broken conflict clause: the stored row is replaced by a fresh one, the
\* columns the statement does not name reset.
UpdatedRowReplace(old, cols, row) ==
    [c \in TableCols |->
        IF c \in cols THEN row[c]
        ELSE IF c = MetaCol THEN 0
        ELSE NULL]

\* ON CONFLICT (datetime_utc) DO UPDATE SET c = EXCLUDED.c for every
\* statement column c other than the key.
UpdatedRow(old, cols, row) ==
    [c \in TableCols |->
        IF c \in cols \ {KeyCol} THEN row[c] ELSE old[c]]

\* Broken conflict clause: DO UPDATE also refreshes ingested_at.
UpdatedRowTouchMeta(old, cols, row, now) ==
    [c \in TableCols |->
        IF c \in cols \ {KeyCol} THEN row[c]
        ELSE IF c = MetaCol THEN now
        ELSE old[c]]

\* Broken statement: a plain INSERT into a table without its primary key.
UpsertOneNoConflict(table, cols, row, now) ==
    table \cup {InsertedRow(cols, row, now)}

\* Broken statement: ON CONFLICT (datetime_utc) DO NOTHING.
UpsertOneDoNothing(table, cols, row, now) ==
    IF \E r \in table : r.datetime_utc = row.datetime_utc
    THEN table
    ELSE table \cup {InsertedRow(cols, row, now)}

\* Broken statement: the conflict clause touches ingested_at too.
UpsertOneTouchMeta(table, cols, row, now) ==
    LET hit == {r \in table : r.datetime_utc = row.datetime_utc}
    IN  IF hit = {}
        THEN table \cup {InsertedRow(cols, row, now)}
        ELSE (table \ hit) \cup {UpdatedRowTouchMeta(r, cols, row, now) : r \in hit}

\* Broken statement: the table is emptied before the row is inserted.
UpsertOneReplaceTable(table, cols, row, now) ==
    {InsertedRow(cols, row, now)}

\* One execution of the INSERT ... ON CONFLICT statement for one parameter set.
UpsertOne(table, cols, row, now) ==
    LET hit == {r \in table : r.datetime_utc = row.datetime_utc}
    IN  IF hit = {}
        THEN table \cup {InsertedRow(cols, row, now)}
        ELSE (table \ hit) \cup {UpdatedRow(r, cols, row) : r \in hit}

\* cx.execute(text(sql), rows): the statement runs once per parameter set,
\* in list order, inside the open transaction.
RECURSIVE ExecuteMany(_, _, _, _)
ExecuteMany(table, cols, rows, now) ==
    IF rows = <<>> THEN table
    ELSE ExecuteMany(UpsertOne(table, cols, Head(rows), now), cols, Tail(rows), now)

\* The statement can be built and bound: it names the key and at least one
\* other column, and every row supplies every bind parameter.
StatementOk(cols, rows) ==
    /\ KeyCol \in cols
    /\ cols \ {KeyCol} # {}
    /\ cols \subseteq TableCols
    /\ \A i \in 1..Len(rows) : cols \subseteq DOMAIN rows[i]

\* No transaction (autocommit): what was executed before the error stays.
RollbackKeepsWork(before, work) == work

\* engine.begin() leaving its block on an exception: ROLLBACK.
Rollback(before, work) == before

\* engine.begin() leaving its block normally: COMMIT.
Commit(before, work) == work

\* The transaction of upsert_rows for a non-empty batch; the value returned
\* after COMMIT is len(rows).
Transaction(table, rows, now, fault) ==
    LET cols == DOMAIN rows[1]
        good == StatementOk(cols, rows)
        done == IF ~good THEN 0
                ELSE IF fault = 0 THEN Len(rows)
                ELSE fault - 1
        work == ExecuteMany(table, cols, SubSeq(rows, 1, done), now)
    IN  IF good /\ fault = 0
        THEN [table |-> Commit(table, work), ret |-> Len(rows),
              raised |-> FALSE, txn |-> TRUE]
        ELSE [table |-> Rollback(table, work), ret |-> 0,
              raised |-> TRUE, txn |-> TRUE]

\* Broken return value: the number of rows the call added to the table.
upsert_rowsCountsInserted(table, rows, now, fault) ==
    IF rows = <<>>
    THEN [table |-> table, ret |-> 0, raised |-> FALSE, txn |-> FALSE]
    ELSE LET res == Transaction(table, rows, now, fault)
         IN  [res EXCEPT !.ret = Cardinality(res.table) - Cardinality(table)]

\* Broken guard: an empty batch opens a transaction like any other.
upsert_rowsNoGuard(table, rows, now, fault) ==
    IF rows = <<>>
    THEN [table |-> table, ret |-> 0, raised |-> FALSE, txn |-> TRUE]
    ELSE Transaction(table, rows, now, fault)

\* upsert_rows(engine, rows).  fault = 0: no database error; fault = k in
\* 1..Len(rows): the k-th execution raises; fault = Len(rows)+1: COMMIT raises.
upsert_rows(table, rows, now, fault) ==
    IF rows = <<>>
    THEN [table |-> table, ret |-> 0, raised |-> FALSE, txn |-> FALSE]
    ELSE Transaction(table, rows, now, fault)

\* get_max_dt's None (no row stored); timestamps are 1..MaxT.
NoTime == 0

\* Python None as a raw value (an unset environment variable, a JSON null).
PyNone == "None"

\* Broken start-up: a missing DB_URL is not detected.
get_engineUnchecked(db_url) == [exited |-> FALSE, code |-> 0, stderr |-> ""]

\* get_engine(): with DB_URL unset or empty, an error on stderr and
\* sys.exit(2); otherwise the engine.
get_engine(db_url) ==
    IF db_url \in {PyNone, ""}
    THEN [exited |-> TRUE, code |-> 2, stderr |-> "ERROR: DB_URL is not set"]
    ELSE [exited |-> FALSE, code |-> 0, stderr |-> ""]

\* get_max_dt(engine): SELECT max(datetime_utc); None on an empty table.
get_max_dt(table) ==
    IF table = {} THEN NoTime
    ELSE CHOOSE t \in {r.datetime_utc : r \in table} :
            \A r \in table : r.datetime_utc <= t

\* ------------------------------------------------------------------ upstream
\* A row of the upstream CKAN resource: its DATETIME column and the raw
\* values of two numeric fields (Absent: the record delivered for the row
\* has no such field).  nodt: the JSON record delivered for the row lacks
\* the DATETIME key.
UpRow(t, g, c, nodt) == [ts |-> t, gas |-> g, coal |-> c, nodt |-> nodt]

\* Broken order: ORDER BY "DATETIME" DESC.
RECURSIVE OrderDesc(_)
OrderDesc(S) ==
    IF S = {} THEN <<>>
    ELSE LET first == CHOOSE r \in S : \A q \in S : r.ts >= q.ts
         IN  <<first>> \o OrderDesc(S \ {first})

\* Ascending order by DATETIME (ORDER BY "DATETIME" ASC).
RECURSIVE OrderAsc(_)
OrderAsc(S) ==
    IF S = {} THEN <<>>
    ELSE LET first == CHOOSE r \in S : \A q \in S : r.ts <= q.ts
         IN  <<first>> \o OrderAsc(S \ {first})

\* ------------------------------------------------------------------ fetcher
\* client.py: total attempts of one fetch_sql call, the first try included.
MAX_RETRIES == 5

\* Broken predicate: the upper bound is inclusive.
WhereClosed(sql, ts) == sql.lo <= ts /\ ts <= sql.hi

\* WHERE "DATETIME" >= '<start>' AND "DATETIME" < '<end>'.
Where(sql, ts) == sql.lo <= ts /\ ts < sql.hi

\* The instant a quoted timestamp literal denotes to the datastore.
Literal(s) == s.local - Offset(s.suffix)

\* build_sql(start_iso, end_iso): SELECT * ... WHERE ... ORDER BY "DATETIME" ASC.
build_sql(start_iso, end_iso) ==
    [select |-> "*", lo |-> Literal(start_iso), hi |-> Literal(end_iso),
     order |-> "ASC"]

\* The upstream's answer to "<sql> LIMIT <limit> OFFSET <offset>".
Query(up, sql, limit, offset) ==
    LET hits == OrderAsc({r \in up : Where(sql, r.ts)})
        last == IF offset + limit < Len(hits) THEN offset + limit ELSE Len(hits)
    IN  SubSeq(hits, offset + 1, last)

\* Broken backoff: linear, attempt + 1 seconds.
BackoffLinear(attempt) == attempt + 1

\* Broken backoff: exponent off by one, 2^(attempt+1) seconds.
BackoffShifted(attempt) == 2 ^ (attempt + 1)

\* time.sleep(2**attempt).
Backoff(attempt) == 2 ^ attempt

\* Broken test: the final attempt is never recognised.
IsFinalAttemptNever(attempt) == attempt = MAX_RETRIES

\* if attempt == MAX_RETRIES - 1: raise.
IsFinalAttempt(attempt) == attempt = MAX_RETRIES - 1

\* The for loop of fetch_sql from iteration `attempt` on.  fails: how many
\* transport attempts in a row raise requests.RequestException before one
\* succeeds.  slept: the sleeps performed so far in this call.  The result
\* records the call's attempts (transport calls made), failed (those that
\* raised) and erratt (the attempt, counted from 1, whose exception left the
\* call).
RECURSIVE RetryLoop(_, _, _, _)
RetryLoop(attempt, fails, slept, answer) ==
    IF attempt >= MAX_RETRIES
    THEN \* range(MAX_RETRIES) is exhausted: raise RuntimeError("Unreachable")
         [status |-> "raised", error |-> "RuntimeError", erratt |-> 0,
          attempts |-> attempt, failed |-> attempt, sleeps |-> slept,
          records |-> <<>>, fails |-> fails]
    ELSE IF attempt >= fails
    THEN \* requests.get succeeded: return r.json()
         [status |-> "returned", error |-> "none", erratt |-> 0,
          attempts |-> attempt + 1, failed |-> attempt, sleeps |-> slept,
          records |-> answer, fails |-> fails]
    ELSE IF IsFinalAttempt(attempt)
    THEN \* re-raise the RequestException of this attempt
         [status |-> "raised", error |-> "RequestException",
          erratt |-> attempt + 1, attempts |-> attempt + 1,
          failed |-> attempt + 1, sleeps |-> slept, records |-> <<>>,
          fails |-> fails]
    ELSE RetryLoop(attempt + 1, fails, Append(slept, Backoff(attempt)), answer)

\* Broken loop bound, range(MAX_RETRIES + 1): the first failure costs no
\* attempt of the five, a sixth transport call is made.
fetch_sqlSixTries(sql, limit, offset, up, fails) ==
    IF fails = 0 THEN RetryLoop(0, 0, <<>>, Query(up, sql, limit, offset))
    ELSE LET res == RetryLoop(0, fails - 1, <<>>, Query(up, sql, limit, offset))
         IN  [res EXCEPT !.fails = fails, !.attempts = @ + 1, !.failed = @ + 1,
                         !.erratt = IF @ = 0 THEN 0 ELSE @ + 1]

\* fetch_sql(sql, limit, offset) against the upstream table `up`.
fetch_sql(sql, limit, offset, up, fails) ==
    RetryLoop(0, fails, <<>>, Query(up, sql, limit, offset))

\* Consecutive transport failures a call can meet: none up to one more
\* than the call ever tries.
Fails == 0..(MAX_RETRIES + 1)

\* Broken test: a full page ends the iteration too.
IsShortPageLE(n, batch_size) == n <= batch_size

\* if len(records) < batch_size: break.
IsShortPage(n, batch_size) == n < batch_size

\* The generator frame of iter_window before its first next().  prior is
\* history: the offsets that earlier calls of iter_window had reached.
NewIter(start_iso, end_iso, batch_size) ==
    [pc |-> "fetch", sql |-> build_sql(start_iso, end_iso),
     batch_size |-> batch_size, offset |-> 0, page |-> <<>>, prior |-> <<>>]

\* No fetch_sql call made yet.
NoFetch ==
    [status |-> "idle", error |-> "none", erratt |-> 0, attempts |-> 0,
     failed |-> 0, sleeps |-> <<>>, records |-> <<>>, fails |-> 0]

NoIter ==
    [pc |-> "idle", sql |-> build_sql(IsoString(0, "Z"), IsoString(0, "Z")),
     batch_size |-> 0, offset |-> 0, page |-> <<>>, prior |-> <<>>]

\* The top of the while loop, given the result of its fetch_sql call: break on
\* an empty page, else yield the page; an exception leaves the generator.
LoopTop(g, res) ==
    IF res.status = "raised" THEN [g EXCEPT !.pc = "raised", !.page = <<>>]
    ELSE IF res.records = <<>> THEN [g EXCEPT !.pc = "done", !.page = <<>>]
    ELSE [g EXCEPT !.pc = "yielded", !.page = res.records]

\* Broken pagination: the offset counts pages, not records.
AfterYieldCountsPages(g) ==
    LET g1 == [g EXCEPT !.offset = @ + 1]
    IN  IF IsShortPage(Len(g.page), g.batch_size)
        THEN [g1 EXCEPT !.pc = "done"]
        ELSE [g1 EXCEPT !.pc = "fetch"]

\* Resuming after the yield: advance the offset; break on a short page, else
\* go round the loop (request the next page).
AfterYield(g) ==
    LET g1 == [g EXCEPT !.offset = @ + Len(g.page)]
    IN  IF IsShortPage(Len(g.page), g.batch_size)
        THEN [g1 EXCEPT !.pc = "done"]
        ELSE [g1 EXCEPT !.pc = "fetch"]

\* ------------------------------------------------------------------ validator
\* validate.py NUMERIC_KEYS: the allow-list, two keys standing for the 29.
NUMERIC_KEYS == {"GAS", "COAL"}

\* A field the raw record does not carry.
Absent == "absent"

\* The JSON record the consumer sees for an upstream row (r.json() under
\* result.records): the fields the row has, plus CKAN's own _id.
Json(r) ==
    [k \in (IF r.nodt THEN {} ELSE {"DATETIME"})
              \cup (IF r.gas # Absent THEN {"GAS"} ELSE {})
              \cup (IF r.coal # Absent THEN {"COAL"} ELSE {})
              \cup {"_id"} |->
        CASE k = "DATETIME" -> IsoString(r.ts, "Z")
          [] k = "GAS" -> r.gas
          [] k = "COAL" -> r.coal
          [] OTHER -> r.ts]

\* Raw values float() rejects: a JSON array (TypeError) and a JSON integer
\* of 401 digits, 10**400 (OverflowError: int too large to convert to float).
JsonArray == "[1]"
HugeInt == "10**400"

\* float(v) on the raw values of the model, or the exception it raises.
FloatOf(v) ==
    CASE v = "100" -> "100.0"
      [] v = "150" -> "150.0"
      [] v = " 150 " -> "150.0"
      [] v = JsonArray -> "TypeError"
      [] v = HugeInt -> "OverflowError"
      [] OTHER -> "ValueError"

\* None if v in (None, "") else float(v); TypeError/ValueError give None,
\* any other exception of float() leaves the function.
Coerce(v) ==
    IF v \in {PyNone, ""} THEN NULL
    ELSE IF FloatOf(v) \in {"ValueError", "TypeError"} THEN NULL
    ELSE FloatOf(v)

\* datetime.fromisoformat(s): the reading of the text, aware exactly when
\* the text carries a designator.
fromisoformat(s) ==
    DateTime(s.local, IF s.suffix = "" THEN Naive
                      ELSE IF s.suffix = "+00:00" THEN UTC
                      ELSE s.suffix)

\* Record.parse_dt: a string is parsed after "Z" is replaced by "+00:00";
\* any other value is returned as it is.
parse_dt(v) ==
    IF v.kind = "str"
    THEN fromisoformat(IsoString(v.local, IF v.suffix = "Z" THEN "+00:00"
                                          ELSE v.suffix))
    ELSE v

\* Broken filter: every key but DATETIME is kept, unknown ones as None.
validate_rawKeepAll(rec) ==
    IF "DATETIME" \notin DOMAIN rec
    THEN [raised |-> TRUE, error |-> "KeyError", datetime_utc |-> NoTime,
          payload |-> <<>>]
    ELSE [raised |-> FALSE, error |-> "none",
          datetime_utc |-> parse_dt(rec["DATETIME"]),
          payload |-> [k \in DOMAIN rec \ {"DATETIME"} |->
                          IF k \in NUMERIC_KEYS /\ rec[k] # HugeInt
                          THEN Coerce(rec[k]) ELSE NULL]]

\* validate_raw(rec).
validate_raw(rec) ==
    IF "DATETIME" \notin DOMAIN rec
    THEN [raised |-> TRUE, error |-> "KeyError", datetime_utc |-> NoTime,
          payload |-> <<>>]
    ELSE IF \E k \in (DOMAIN rec \ {"DATETIME"}) \cap NUMERIC_KEYS :
                Coerce(rec[k]) = "OverflowError"
    THEN [raised |-> TRUE, error |-> "OverflowError", datetime_utc |-> NoTime,
          payload |-> <<>>]
    ELSE [raised |-> FALSE, error |-> "none",
          datetime_utc |-> parse_dt(rec["DATETIME"]),
          payload |-> [k \in (DOMAIN rec \ {"DATETIME"}) \cap NUMERIC_KEYS |->
                          Coerce(rec[k])]]

\* ------------------------------------------------------------------ transformer
\* Broken mapping: two upstream keys are mapped to one column.
MAP_KEYSCollide == [src \in {"GAS", "COAL"} |-> "gas_mw"]

\* transform.py MAP_KEYS, for the two keys of the model.
MAP_KEYS == [src \in {"GAS", "COAL"} |-> IF src = "GAS" THEN "gas_mw" ELSE "coal_mw"]

\* Broken mapping: only the keys the payload carries are mapped.
to_rowPresentOnly(valid_payload) ==
    [dst \in {MAP_KEYS[src] : src \in DOMAIN MAP_KEYS \cap DOMAIN valid_payload} |->
        valid_payload[CHOOSE k \in DOMAIN MAP_KEYS : MAP_KEYS[k] = dst]]

\* to_row(valid_payload): out[dst] = valid_payload.get(src).
to_row(valid_payload) ==
    [dst \in {MAP_KEYS[src] : src \in DOMAIN MAP_KEYS} |->
        LET src == CHOOSE k \in DOMAIN MAP_KEYS : MAP_KEYS[k] = dst
        IN  IF src \in DOMAIN valid_payload THEN valid_payload[src] ELSE NULL]

\* ------------------------------------------------------------------ orchestrator
\* run.py BATCH_WRITE_SIZE: 5000 in the source, scaled down here.
BATCH_WRITE_SIZE == 3

\* Broken alignment: now is used as it is read.
AlignHourNone(t) == t

\* datetime.now(timezone.utc).replace(minute=0, second=0, microsecond=0).
AlignHour(t) == t - (t % HOUR)

\* iso(dt): dt.astimezone(timezone.utc).isoformat(), the UTC reading with
\* the designator "+00:00"; dt is an aware datetime, held as its instant.
iso(dt) == IsoString(dt, "+00:00")

\* parse_utc(s_): dtp.isoparse(s_).astimezone(timezone.utc), the instant of
\* a text that carries a designator.
parse_utc(s_) == s_.local - Offset(s_.suffix)

\* args.start_date / args.end_date not given (None).
NoDate == [kind |-> "none"]

\* Broken window: the relative start is taken forward, now + days.
ComputeWindowForward(args, wallnow) ==
    LET now == AlignHour(wallnow)
    IN  [start |-> IF args.start_date # NoDate THEN parse_utc(args.start_date)
                   ELSE now + args.days * DAY,
         end   |-> IF args.end_date # NoDate THEN parse_utc(args.end_date)
                   ELSE now + CUSHION]

\* The window of run(): explicit bounds, or relative to the aligned now.
ComputeWindow(args, wallnow) ==
    LET now == AlignHour(wallnow)
    IN  [start |-> IF args.start_date # NoDate THEN parse_utc(args.start_date)
                   ELSE now - args.days * DAY,
         end   |-> IF args.end_date # NoDate THEN parse_utc(args.end_date)
                   ELSE now + CUSHION]

Max(a, b) == IF a >= b THEN a ELSE b

\* Broken clamp: min instead of max.
ClampMin(start, args, table) ==
    IF args.no_incremental THEN start
    ELSE LET last == get_max_dt(table)
         IN  IF last # NoTime
             THEN (IF start <= last - args.overlap_hours * HOUR THEN start
                   ELSE last - args.overlap_hours * HOUR)
             ELSE start

\* Broken clamp: the overlap is not subtracted, start = max(start, last).
ClampNoOverlap(start, args, table) ==
    IF args.no_incremental THEN start
    ELSE LET last == get_max_dt(table)
         IN  IF last # NoTime THEN Max(start, last) ELSE start

\* Broken clamp: the latest timestamp is read and applied even with
\* no_incremental set.
ClampAlways(start, args, table) ==
    LET last == get_max_dt(table)
    IN  IF last # NoTime
        THEN Max(start, last - args.overlap_hours * HOUR)
        ELSE start

\* The incremental clamp of run(): start = max(start, last - overlap).
Clamp(start, args, table) ==
    IF args.no_incremental THEN start
    ELSE LET last == get_max_dt(table)
         IN  IF last # NoTime
             THEN Max(start, last - args.overlap_hours * HOUR)
             ELSE start

\* Broken row: only the columns of the fields the payload carries are set.
RowOfPayloadKeys(model) ==
    LET mapped == to_row(model.payload)
    IN  [c \in {KeyCol} \cup {MAP_KEYS[k] : k \in DOMAIN model.payload} |->
            IF c \in DOMAIN mapped THEN mapped[c]
            ELSE Instant(model.datetime_utc)]

\* row = {"datetime_utc": model.datetime_utc}; row.update(to_row(model.payload)).
RowOf(model) ==
    LET mapped == to_row(model.payload)
    IN  [c \in {KeyCol} \cup DOMAIN mapped |->
            IF c \in DOMAIN mapped THEN mapped[c]
            ELSE Instant(model.datetime_utc)]

\* Broken loop: a record validate_raw rejects is skipped (except: continue).
RECURSIVE BufferPageSkip(_, _)
BufferPageSkip(to_insert, chunk) ==
    IF chunk = <<>> THEN [raised |-> FALSE, error |-> "none", to_insert |-> to_insert]
    ELSE LET model == validate_raw(Json(Head(chunk)))
         IN  IF model.raised
             THEN BufferPageSkip(to_insert, Tail(chunk))
             ELSE BufferPageSkip(Append(to_insert, RowOf(model)), Tail(chunk))

\* Broken loop: to_insert.insert(0, row), the newest row first.
RECURSIVE BufferPagePrepend(_, _)
BufferPagePrepend(to_insert, chunk) ==
    IF chunk = <<>> THEN [raised |-> FALSE, error |-> "none", to_insert |-> to_insert]
    ELSE LET model == validate_raw(Json(Head(chunk)))
         IN  IF model.raised
             THEN [raised |-> TRUE, error |-> model.error, to_insert |-> to_insert]
             ELSE BufferPagePrepend(<<RowOf(model)>> \o to_insert, Tail(chunk))

\* The inner for loop of run() over the records of one page, appending to
\* the buffer; a record validate_raw rejects ends it with the exception.
RECURSIVE BufferPage(_, _)
BufferPage(to_insert, chunk) ==
    IF chunk = <<>> THEN [raised |-> FALSE, error |-> "none", to_insert |-> to_insert]
    ELSE LET model == validate_raw(Json(Head(chunk)))
         IN  IF model.raised
             THEN [raised |-> TRUE, error |-> model.error, to_insert |-> to_insert]
             ELSE BufferPage(Append(to_insert, RowOf(model)), Tail(chunk))

\* Broken test: len(to_insert) > BATCH_WRITE_SIZE.
FlushDueStrict(to_insert) == Len(to_insert) > BATCH_WRITE_SIZE

\* Broken test: the buffer is flushed at twice the threshold.
FlushDueDouble(to_insert) == Len(to_insert) >= 2 * BATCH_WRITE_SIZE

\* if len(to_insert) >= BATCH_WRITE_SIZE.
FlushDue(to_insert) == Len(to_insert) >= BATCH_WRITE_SIZE

\* Broken test: the trailing flush is made whatever the buffer holds.
FinalFlushAlways(to_insert) == TRUE

\* if to_insert: (after the loop).
FinalFlushDue(to_insert) == to_insert # <<>>

\* ------------------------------------------------------------------ history
\* The pages of an iteration, concatenated.
RECURSIVE Concat(_)
Concat(ps) == IF ps = <<>> THEN <<>> ELSE Head(ps) \o Concat(Tail(ps))

\* The timestamps a batch carries.
BatchTimes(rows) == {rows[i].datetime_utc : i \in 1..Len(rows)}

\* ------------------------------------------------------------------ state
VARIABLES
    store,      \* the generation_mix table: a set of rows
    clock,      \* the database server's now()
    call,       \* the direct call of the store API in progress, or IdleCall
    upstream,   \* the upstream CKAN resource: a set of rows
    it,         \* the generator frame of iter_window
    fx,         \* the outcome of the latest fetch_sql call
    pages,      \* the pages iter_window has yielded, in order
    requests,   \* the (limit, offset) of the fetch_sql calls it made, in order
    changed,    \* the upstream changed since the iteration began
    run,        \* the frame of run(): its position, arguments and locals
    conv,       \* the direct call of validate_raw in progress, or NoConv
    txs         \* the batch transactions of two concurrent runs, or NoTxs

storeVars == <<store, clock, call>>
fetchVars == <<upstream, it, fx, pages, requests, changed>>
vars == <<store, clock, call, upstream, it, fx, pages, requests, changed, run,
          conv, txs>>

\* ------------------------------------------------------------------ store API
NoArgs ==
    [days |-> 0, overlap_hours |-> 0, batch_size |-> 0, start_date |-> NoDate,
     end_date |-> NoDate, no_incremental |-> FALSE]

\* No run() in progress.  The last fields are history: flushed, the batches
\* the run committed, each with the database time and whether it was the
\* flush after the loop; store0, the table at its start; peak, the most rows
\* the buffer ever held; rerun, the run follows an aborted one; lost, the
\* timestamps that one fetched without committing them; prev, that one's
\* no_incremental, wall-clock time, window and the latest stored timestamp
\* at its start; db_url, the DB_URL of the environment; exit and stderr, the
\* status and message of sys.exit; queried, get_max_dt was called.
NoRun ==
    [pc |-> "idle", args |-> NoArgs, now |-> 0, start |-> 0, end |-> 0,
     total_in |-> 0, total_ok |-> 0, to_insert |-> <<>>, error |-> "none",
     flushed |-> <<>>, store0 |-> {}, peak |-> 0, rerun |-> FALSE,
     lost |-> {},
     prev |-> [no_incremental |-> FALSE, now |-> 0, start |-> 0, end |-> 0,
               latest |-> NoTime],
     db_url |-> PyNone, exit |-> 0, stderr |-> "", queried |-> FALSE]

\* No direct call of validate_raw in progress.
NoConv == [op |-> "idle", rec |-> <<>>, out |-> <<>>]

\* The two runs that may write to the store at the same time.
Writers == {"A", "B"}

\* A writer with no transaction open.  rows: the batch of its open
\* transaction; done: how many of them it has executed; at: the
\* database time at BEGIN; work: the row versions it wrote and has not
\* committed (it holds the locks of these rows); begun and commits count its
\* transactions; overlap: another transaction was open during this one.
NoTx ==
    [pc |-> "idle", rows |-> <<>>, done |-> 0, at |-> 0, work |-> {},
     begun |-> 0, commits |-> 0, overlap |-> FALSE]

\* A timestamp no committed batch has written.
NoRow == [datetime_utc |-> NoTime]

\* No concurrent transactions.  last: per timestamp, the row of the last
\* committed batch that contained it; store0: the table before the runs.
NoTxs ==
    [tx |-> [w \in Writers |-> NoTx], last |-> [t \in Times |-> NoRow],
     store0 |-> {}]

IdleCall ==
    [op |-> "idle", rows |-> <<>>, pre |-> {}, raised |-> FALSE, ret |-> 0,
     txn |-> FALSE, dirty |-> FALSE, again |-> FALSE]

\* The database errors a call can meet: none, the k-th execution, COMMIT.
Faults(rows) == IF rows = <<>> THEN {0} ELSE 0..(Len(rows) + 1)

\* The uncommitted work of a failed transaction differed from the table.
Dirty(table, rows, now, fault) ==
    /\ rows # <<>>
    /\ fault > 1
    /\ StatementOk(DOMAIN rows[1], rows)
    /\ ExecuteMany(table, DOMAIN rows[1], SubSeq(rows, 1, fault - 1), now) # table

DoUpsert(rows, fault, again) ==
    LET res == upsert_rows(store, rows, clock, fault)
    IN  /\ store' = res.table
        /\ call' = [op |-> "upsert_rows", rows |-> rows, pre |-> store,
                    raised |-> res.raised, ret |-> res.ret, txn |-> res.txn,
                    dirty |-> res.raised /\ Dirty(store, rows, clock, fault),
                    again |-> again]
        /\ UNCHANGED clock

\* A caller invokes upsert_rows(engine, rows).
UpsertCall ==
    /\ call.op = "idle"
    /\ \E rows \in Batches : \E fault \in Faults(rows) : DoUpsert(rows, fault, FALSE)
    /\ UNCHANGED <<fetchVars, run, conv, txs>>

\* The caller invokes upsert_rows a second time in succession, same rows.
UpsertAgain ==
    /\ call.op = "upsert_rows"
    /\ ~call.raised
    /\ ~call.again
    /\ \E fault \in Faults(call.rows) : DoUpsert(call.rows, fault, TRUE)
    /\ UNCHANGED <<fetchVars, run, conv, txs>>

\* The caller moves on.
Return ==
    /\ call.op # "idle"
    /\ call' = IdleCall
    /\ UNCHANGED <<store, clock>>
    /\ UNCHANGED <<fetchVars, run, conv, txs>>

\* Time passes on the database server; a run in progress meets the new
\* time at its next statement, so the step is taken between its pages.
Tick ==
    /\ clock < MaxClock
    /\ run.pc \in {"idle", "next"}
    /\ clock' = clock + 1
    /\ UNCHANGED <<store, call>>
    /\ UNCHANGED <<fetchVars, run, conv, txs>>

FetchIdle ==
    /\ upstream = {}
    /\ it = NoIter
    /\ fx = NoFetch
    /\ pages = <<>>
    /\ requests = <<>>
    /\ changed = FALSE
    /\ run = NoRun
    /\ conv = NoConv
    /\ txs = NoTxs

StoreIdle ==
    /\ store = {}
    /\ clock = 0
    /\ call = IdleCall

InitStore == StoreIdle /\ FetchIdle

NextStore == UpsertCall \/ UpsertAgain \/ Return \/ Tick

SpecStore == InitStore /\ [][NextStore]_vars

\* ------------------------------------------------------------------ fetcher API
\* The raw field values of the upstream rows of the fetcher's model.
PlainRow(t) == UpRow(t, "100", "150", FALSE)

\* The windows and page sizes a consumer asks for.
WindowStarts == {1, 2}
WindowEnds == {MaxUp, MaxUp + 1}
PageSizes == 1..MaxPage

\* The loop top of iter_window with generator frame g: one fetch_sql call,
\* then yield, break or raise.
RequestAfter(g, fails, rq, ps) ==
    \E res \in {fetch_sql(g.sql, g.batch_size, g.offset, upstream, fails)} :
      \E g2 \in {LoopTop(g, res)} :
        /\ fx' = res
        /\ it' = g2
        /\ requests' = Append(rq, [sql |-> g.sql, limit |-> g.batch_size,
                                   offset |-> g.offset])
        /\ pages' = IF g2.pc = "yielded" THEN Append(ps, g2.page) ELSE ps

Request(g, fails) == RequestAfter(g, fails, requests, pages)

\* A consumer calls iter_window(start, end, batch_size) and asks for the
\* first page.
IterStart ==
    /\ it.pc = "idle"
    /\ \E start \in WindowStarts : \E end \in WindowEnds : \E bs \in PageSizes :
         \E fails \in Fails :
            Request(NewIter(IsoString(start, "Z"), IsoString(end, "Z"), bs), fails)
    /\ UNCHANGED <<upstream, changed>>
    /\ UNCHANGED <<storeVars, run, conv, txs>>

\* After a call of iter_window has finished or raised, the consumer calls
\* iter_window again for the same window, with any page size, and asks for
\* the first page; requests and pages are those of the call in progress.
IterRestart ==
    /\ it.pc \in {"done", "raised"}
    /\ it.prior = <<>>
    /\ \E bs \in PageSizes : \E fails \in {0, MAX_RETRIES} :
         RequestAfter([NewIter(IsoString(it.sql.lo, "Z"), IsoString(it.sql.hi, "Z"), bs)
                          EXCEPT !.prior = <<it.offset>>],
                      fails, <<>>, <<>>)
    /\ UNCHANGED <<upstream, changed>>
    /\ UNCHANGED <<storeVars, run, conv, txs>>

\* The consumer asks for the next page: the generator resumes after its yield.
IterNext ==
    /\ it.pc = "yielded"
    /\ LET g == AfterYield(it)
       IN  IF g.pc = "done"
           THEN it' = g /\ UNCHANGED <<fx, pages, requests>>
           ELSE \E fails \in Fails : Request(g, fails)
    /\ UNCHANGED <<upstream, changed>>
    /\ UNCHANGED <<storeVars, run, conv, txs>>

\* The upstream publishes a row while the consumer holds a page.
UpstreamInsert ==
    /\ it.pc = "yielded"
    /\ ~changed
    /\ \E t \in UpTimes :
         /\ \A r \in upstream : r.ts # t
         /\ upstream' = upstream \cup {PlainRow(t)}
    /\ changed' = TRUE
    /\ UNCHANGED <<it, fx, pages, requests>>
    /\ UNCHANGED <<storeVars, run, conv, txs>>

\* The upstream withdraws a row while the consumer holds a page.
UpstreamDelete ==
    /\ it.pc = "yielded"
    /\ ~changed
    /\ \E r \in upstream : upstream' = upstream \ {r}
    /\ changed' = TRUE
    /\ UNCHANGED <<it, fx, pages, requests>>
    /\ UNCHANGED <<storeVars, run, conv, txs>>

InitFetch ==
    /\ StoreIdle
    /\ upstream \in { {PlainRow(t) : t \in S} : S \in SUBSET UpTimes }
    /\ it = NoIter
    /\ fx = NoFetch
    /\ pages = <<>>
    /\ requests = <<>>
    /\ changed = FALSE
    /\ run = NoRun
    /\ conv = NoConv
    /\ txs = NoTxs

NextFetch ==
    IterStart \/ IterNext \/ IterRestart \/ UpstreamInsert \/ UpstreamDelete

SpecFetch == InitFetch /\ [][NextFetch]_vars

\* ------------------------------------------------------------------ run()
\* The upstream rows of the orchestrator's model: a row per timestamp, with
\* raw values that exercise the coercions.
RunRow(t) ==
    IF t % 2 = 1 THEN UpRow(t, "100", "150", FALSE)
    ELSE IF t % 4 = 0 THEN UpRow(t, "150", Absent, FALSE)
    ELSE UpRow(t, "150", "", FALSE)

\* The rows of a range of timestamps.
RangeRows(a, b) == {RunRow(t) : t \in a..b}

\* Upstream tables: the rows of a range of timestamps, at most one of them
\* delivered without its DATETIME key.
RunUpstreams ==
    LET ranges == {RangeRows(a, b) : a \in UpTimes, b \in UpTimes}
    IN  ranges \cup
        UNION { {(u \ {r}) \cup {[r EXCEPT !.nodt = TRUE]} : r \in u} : u \in ranges }

\* Tables an earlier run left behind: empty, one row, or rows for the
\* timestamps up to MaxT + 1, with values the upstream has corrected since.
RunStores ==
    { {[datetime_utc |-> t, gas_mw |-> "100.0", coal_mw |-> NULL,
        ingested_at |-> 0] : t \in 1..k} : k \in {0, 1, MaxT + 1} }

\* --start-date and --end-date as given on the command line: the instant 2,
\* written in UTC and in the zone +01:00.
ExplicitStart == IsoString(2, "Z")
ExplicitEnd == IsoString(2 + HOUR, PlusOne)

\* The arguments and the wall-clock times of the runs of the model.
\* days is read only when start_date is not given.
RunArgs ==
    { a \in [days : {0, 1}, overlap_hours : {0, 1}, batch_size : PageSizes,
             start_date : {NoDate, ExplicitStart},
             end_date : {NoDate, ExplicitEnd},
             no_incremental : BOOLEAN] :
        a.start_date # NoDate => a.days = 1 }
WallTimes == {MaxUp}

\* Transport behaviour of a page request in a run: the first attempt
\* succeeds, or every attempt fails.
RunFails == {0, MAX_RETRIES}

\* Broken loop: after a failed page request the run waits for a page that
\* never comes instead of raising.
RunAfterHang(r, g) ==
    IF g.pc = "raised" THEN [r EXCEPT !.pc = "waiting"]
    ELSE IF g.pc = "done" THEN [r EXCEPT !.pc = "final"]
    ELSE [r EXCEPT !.pc = "body"]

\* Broken loop: the next page is requested before the page just yielded is
\* handled.
RunAfterEager(r, g) ==
    IF g.pc = "raised" THEN [r EXCEPT !.pc = "aborted", !.error = "RequestException"]
    ELSE IF g.pc = "done" THEN [r EXCEPT !.pc = "final"]
    ELSE [r EXCEPT !.pc = "next"]

\* Where the for statement of run() stands once the generator has yielded,
\* finished or raised.
RunAfter(r, g) ==
    IF g.pc = "raised" THEN [r EXCEPT !.pc = "aborted", !.error = "RequestException"]
    ELSE IF g.pc = "done" THEN [r EXCEPT !.pc = "final"]
    ELSE [r EXCEPT !.pc = "body"]

\* Buggy handling: the rows buffered so far are written although the
\* transaction failed.
FlushKeepsFailed(r, table, now, fault, clear) ==
    LET res == upsert_rows(table, r.to_insert, now, 0)
    IN  IF fault # 0
        THEN [table |-> res.table,
              run |-> [r EXCEPT !.pc = "aborted", !.error = "StorageError"]]
        ELSE [table |-> res.table,
              run |-> [r EXCEPT !.total_ok = @ + res.ret,
                                !.to_insert = IF clear THEN <<>> ELSE @,
                                !.flushed = Append(@, [rows |-> r.to_insert, at |-> now,
                                                       final |-> ~clear])]]

\* Broken loop: to_insert.clear() is missing.
FlushNoClear(r, table, now, fault, clear) ==
    LET res == upsert_rows(table, r.to_insert, now, fault)
    IN  IF res.raised
        THEN [table |-> res.table,
              run |-> [r EXCEPT !.pc = "aborted", !.error = "StorageError"]]
        ELSE [table |-> res.table,
              run |-> [r EXCEPT !.total_ok = @ + res.ret,
                                !.flushed = Append(@, [rows |-> r.to_insert, at |-> now,
                                                       final |-> ~clear])]]

\* total_ok += upsert_rows(engine, to_insert), followed in the loop by
\* to_insert.clear(); an exception of upsert_rows leaves run().
Flush(r, table, now, fault, clear) ==
    LET res == upsert_rows(table, r.to_insert, now, fault)
    IN  IF res.raised
        THEN [table |-> res.table,
              run |-> [r EXCEPT !.pc = "aborted", !.error = "StorageError"]]
        ELSE [table |-> res.table,
              run |-> [r EXCEPT !.total_ok = @ + res.ret,
                                !.to_insert = IF clear THEN <<>> ELSE @,
                                !.flushed = Append(@, [rows |-> r.to_insert, at |-> now,
                                                       final |-> ~clear])]]

\* run(...) from its first line to the first page of the for statement:
\* window, get_engine (which may end the process), incremental clamp,
\* counters, iter_window and its first request.
Begin(args, wallnow, fails, rerun, lost, db_url) ==
    LET w == ComputeWindow(args, wallnow)
        engine == get_engine(db_url)
        start == Clamp(w.start, args, store)
        r0 == [NoRun EXCEPT !.args = args, !.now = wallnow, !.store0 = store,
                            !.rerun = rerun, !.lost = lost, !.db_url = db_url,
                            !.prev = IF rerun
                                     THEN [no_incremental |-> run.args.no_incremental,
                                           now |-> run.now, start |-> run.start,
                                           end |-> run.end,
                                           latest |-> get_max_dt(run.store0)]
                                     ELSE @]
        r == [r0 EXCEPT !.start = start, !.end = w.end,
                        !.queried = ~args.no_incremental]
    IN  IF engine.exited
        THEN /\ run' = [r0 EXCEPT !.pc = "exited", !.exit = engine.code,
                                  !.stderr = engine.stderr]
             /\ it' = NoIter
             /\ fx' = NoFetch
             /\ pages' = <<>>
             /\ requests' = <<>>
        ELSE /\ RequestAfter(NewIter(iso(start), iso(w.end), args.batch_size),
                             fails, <<>>, <<>>)
             /\ run' = RunAfter(r, it')

\* The values of DB_URL in the environment: unset, empty, a connection
\* string.
DbUrls == {PyNone, "", "postgresql://warehouse"}

RunStart ==
    /\ run.pc = "idle"
    /\ \E args \in RunArgs : \E wallnow \in WallTimes : \E fails \in RunFails :
         \E db_url \in DbUrls :
            Begin(args, wallnow, fails, FALSE, {}, db_url)
    /\ UNCHANGED <<upstream, changed>>
    /\ UNCHANGED <<storeVars, conv, txs>>

\* The timestamps of the records the run has fetched, and of the rows its
\* flushes committed.
FetchedTimes(ps) == {Concat(ps)[i].ts : i \in 1..Len(Concat(ps))}
CommittedTimes(fl) == UNION {BatchTimes(fl[i].rows) : i \in 1..Len(fl)}

\* Another wall-clock time in the UTC hour of t.
SameHourOther(t) ==
    CHOOSE u \in (t - HOUR + 1)..(t + HOUR - 1) : u # t /\ u \div HOUR = t \div HOUR

\* The next scheduled run after an aborted one: run() again with the same
\* arguments, incremental, later in the same hour or in the next, upstream
\* and environment unchanged.
RunAgain ==
    /\ run.pc = "aborted"
    /\ ~run.rerun
    /\ \E wallnow \in {SameHourOther(run.now), run.now + HOUR} :
         \E fails \in RunFails :
            Begin([run.args EXCEPT !.no_incremental = FALSE], wallnow, fails, TRUE,
                  FetchedTimes(pages) \ CommittedTimes(run.flushed), run.db_url)
    /\ UNCHANGED <<upstream, changed>>
    /\ UNCHANGED <<storeVars, conv, txs>>

\* The body of the for statement for the page just yielded: count, validate,
\* transform and buffer its records, then flush if the threshold is reached.
RunBody ==
    /\ run.pc = "body"
    /\ \E buf \in {BufferPage(run.to_insert, it.page)} :
         \E r2 \in {[run EXCEPT !.total_in = @ + Len(it.page),
                                !.to_insert = buf.to_insert,
                                !.peak = Max(@, Len(buf.to_insert))]} :
           IF buf.raised
           THEN /\ run' = [r2 EXCEPT !.pc = "aborted", !.error = buf.error]
                /\ store' = store
           ELSE IF FlushDue(r2.to_insert)
           THEN \E fault \in Faults(r2.to_insert) :
                  \E f \in {Flush(r2, store, clock, fault, TRUE)} :
                    /\ store' = f.table
                    /\ run' = IF f.run.pc = "aborted" THEN f.run
                              ELSE [f.run EXCEPT !.pc = "next"]
           ELSE /\ run' = [r2 EXCEPT !.pc = "next"]
                /\ store' = store
    /\ UNCHANGED <<clock, call, conv, txs>>
    /\ UNCHANGED fetchVars

\* The for statement asks the generator for the next page.
RunNext ==
    /\ run.pc = "next"
    /\ \E g \in {AfterYield(it)} :
         IF g.pc = "done"
         THEN /\ it' = g
              /\ UNCHANGED <<fx, pages, requests>>
         ELSE \E fails \in RunFails : Request(g, fails)
    /\ run' = RunAfter(run, it')
    /\ UNCHANGED <<upstream, changed>>
    /\ UNCHANGED <<storeVars, conv, txs>>

\* After the loop: flush the trailing rows, if any, and return the stats.
RunFinal ==
    /\ run.pc = "final"
    /\ IF FinalFlushDue(run.to_insert)
       THEN \E fault \in Faults(run.to_insert) :
              \E f \in {Flush(run, store, clock, fault, FALSE)} :
                /\ store' = f.table
                /\ run' = IF f.run.pc = "aborted" THEN f.run
                          ELSE [f.run EXCEPT !.pc = "done"]
       ELSE /\ run' = [run EXCEPT !.pc = "done"]
            /\ store' = store
    /\ UNCHANGED <<clock, call, conv, txs>>
    /\ UNCHANGED fetchVars

Init ==
    /\ store \in RunStores
    /\ clock = 0
    /\ call = IdleCall
    /\ upstream \in RunUpstreams
    /\ it = NoIter
    /\ fx = NoFetch
    /\ pages = <<>>
    /\ requests = <<>>
    /\ changed = FALSE
    /\ run = NoRun
    /\ conv = NoConv
    /\ txs = NoTxs

Next == RunStart \/ RunBody \/ RunNext \/ RunFinal \/ RunAgain \/ Tick

Spec == Init /\ [][Next]_vars

\* The runs whose termination is checked: against a store of one row and
\* the upstream with a row for every timestamp.
InitLive ==
    /\ Init
    /\ Cardinality(store) = 1
    /\ upstream = RangeRows(1, MaxUp)

\* run() is one thread of straight-line code: once called it keeps taking
\* its own steps (every transport attempt and database call returns or
\* raises).  Nothing obliges a run, or a rerun, to be started.
SpecLive ==
    InitLive /\ [][Next]_vars /\ WF_vars(RunBody \/ RunNext \/ RunFinal)

\* A row as the upstream republishes it with a corrected GAS value.
Revised(r) == [r EXCEPT !.gas = IF @ = "100" THEN "150" ELSE "100"]

\* The upstream changes between two page requests of a run: it corrects the
\* rows it holds and publishes a row for a timestamp it did not hold, so
\* that the offsets of the rows after it shift by one.
UpstreamRevise ==
    /\ run.pc = "next"
    /\ ~changed
    /\ \E t \in UpTimes :
         /\ \A r \in upstream : r.ts # t
         /\ upstream' = {Revised(r) : r \in upstream} \cup {RunRow(t)}
    /\ changed' = TRUE
    /\ UNCHANGED <<it, fx, pages, requests>>
    /\ UNCHANGED <<storeVars, run, conv, txs>>

\* Runs against a store of one row and an upstream that changes once while a
\* run is between pages; every record is delivered with its DATETIME.
InitDup ==
    /\ Init
    /\ Cardinality(store) = 1
    /\ \A r \in upstream : ~r.nodt

NextDup == Next \/ UpstreamRevise

SpecDup == InitDup /\ [][NextDup]_vars

\* ------------------------------------------------------------------ validator API
\* The raw values of a numeric field: numbers as JSON strings, blank, null,
\* and garbage (text, an array, an integer beyond the range of float).
RawVals == {PyNone, "", "100", " 150 ", "n/a", JsonArray, HugeInt}

\* No DATETIME key in the raw record.
NoField == [kind |-> "absent"]

\* The DATETIME values of a raw record: ISO-8601 text ending in "Z", in an
\* offset or in nothing, and datetime objects, aware (UTC) or naive.
RawTimes ==
    {IsoString(t, sfx) : t \in Times, sfx \in {"Z", "", PlusOne}}
        \cup {DateTime(t, tz) : t \in Times, tz \in {UTC, Naive}}

\* The raw record with DATETIME dt (NoField: no DATETIME key), the GAS and
\* COAL values g and c (Absent: no such key) and CKAN's _id.
RawRec(dt, g, c) ==
    [k \in {"_id"} \cup (IF dt # NoField THEN {"DATETIME"} ELSE {})
                  \cup (IF g # Absent THEN {"GAS"} ELSE {})
                  \cup (IF c # Absent THEN {"COAL"} ELSE {}) |->
        CASE k = "DATETIME" -> dt
          [] k = "GAS" -> g
          [] k = "COAL" -> c
          [] OTHER -> 1]

RawRecords ==
    { RawRec(dt, g, c) : dt \in {NoField} \cup RawTimes,
                         g \in RawVals \cup {Absent}, c \in RawVals \cup {Absent} }

\* A caller invokes validate_raw(rec).
ValidateCall ==
    /\ conv.op = "idle"
    /\ \E rec \in RawRecords :
         conv' = [op |-> "validate_raw", rec |-> rec, out |-> validate_raw(rec)]
    /\ UNCHANGED <<storeVars, fetchVars, run, txs>>

\* The floats the raw values of the model denote.
Floats == {"100.0", "150.0"}

\* Payloads handed to to_row: any subset of the mapped upstream keys and of
\* a key MAP_KEYS does not know, each with a float or None.
Payloads ==
    UNION { [K -> Floats \cup {NULL}] : K \in SUBSET {"GAS", "COAL", "UNKNOWN"} }

\* A caller invokes to_row(valid_payload).
TransformCall ==
    /\ conv.op = "idle"
    /\ \E valid_payload \in Payloads :
         conv' = [op |-> "to_row", rec |-> valid_payload,
                  out |-> to_row(valid_payload)]
    /\ UNCHANGED <<storeVars, fetchVars, run, txs>>

\* The caller builds the warehouse row of the record validate_raw returned,
\* as run() does: rec is the payload given to to_row, out the row.
RowCall ==
    /\ conv.op = "validate_raw"
    /\ ~conv.out.raised
    /\ conv' = [op |-> "row", rec |-> conv.out.payload, out |-> RowOf(conv.out)]
    /\ UNCHANGED <<storeVars, fetchVars, run, txs>>

\* The caller moves on.
ValidateReturn ==
    /\ conv.op # "idle"
    /\ conv' = NoConv
    /\ UNCHANGED <<storeVars, fetchVars, run, txs>>

InitValidate == StoreIdle /\ FetchIdle

NextValidate == ValidateCall \/ TransformCall \/ RowCall \/ ValidateReturn

SpecValidate == InitValidate /\ [][NextValidate]_vars

\* ------------------------------------------------------------------ helpers
\* The stored rows at timestamp t.
RowsAt(table, t) == {r \in table : r.datetime_utc = t}

\* The timestamps a table holds.
StoredTimes(table) == {r.datetime_utc : r \in table}

\* The last row of the batch for timestamp t (the incoming value for t).
LastFor(rows, t) ==
    rows[CHOOSE i \in 1..Len(rows) :
            /\ rows[i].datetime_utc = t
            /\ \A j \in (i + 1)..Len(rows) : rows[j].datetime_utc # t]

\* The table holds, for the batch's timestamp t, exactly the incoming values
\* in every non-key column of the batch.
HoldsIncoming(table, rows, t) ==
    /\ RowsAt(table, t) # {}
    /\ \A r \in RowsAt(table, t) :
          \A c \in (DOMAIN rows[1]) \ {KeyCol} : r[c] = LastFor(rows, t)[c]

UpsertDone == call.op = "upsert_rows" /\ call.rows # <<>>

\* ------------------------------------------------------------------ concurrent runs
\* Most transactions a run opens.
MaxTx == 2

\* The row a run holds for timestamp t: the two runs fetched different
\* values (the upstream corrected them in between).
WriterRow(w, t) ==
    IF w = "A" THEN BatchRow(t, "100.0", "150.0") ELSE BatchRow(t, "150.0", NULL)

\* The batches a run flushes: rows in ascending DATETIME order, as fetched.
WriterBatches(w) ==
    { b \in SeqsUpTo({WriterRow(w, t) : t \in Times}, MaxBatch) :
        /\ b # <<>>
        /\ \A i \in 1..(Len(b) - 1) : b[i].datetime_utc < b[i + 1].datetime_utc }

\* The timestamps of a set of rows.
Keys(rows) == {r.datetime_utc : r \in rows}

\* The table a transaction with uncommitted row versions work sees under
\* READ COMMITTED: the committed table, with its own versions on top.
Visible(table, work) ==
    {r \in table : r.datetime_utc \notin Keys(work)} \cup work

\* Broken isolation: no transaction, every execution is committed at once.
StoreAfterExecAutocommit(table, work) == Visible(table, work)

\* The committed table after an execution inside an open transaction: as
\* before, the work stays private until COMMIT.
StoreAfterExec(table, work) == table

\* The other writer.
Other(w) == CHOOSE v \in Writers : v # w

\* The execution for timestamp t by writer w must wait: the other
\* transaction wrote that row and has not ended.
Blocked(w, t) == t \in Keys(txs.tx[Other(w)].work)

\* with engine.begin() as cx: a run opens the transaction of a flush.
TxBegin(w) ==
    /\ txs.tx[w].pc = "idle"
    /\ txs.tx[w].begun < MaxTx
    /\ \E rows \in WriterBatches(w) :
         LET both == txs.tx[Other(w)].pc = "open"
         IN  txs' = [txs EXCEPT
                 !.tx[w] = [@ EXCEPT !.pc = "open", !.rows = rows, !.done = 0,
                                     !.at = clock, !.work = {},
                                     !.begun = @ + 1, !.overlap = both],
                 !.tx[Other(w)] = [@ EXCEPT !.overlap = @ \/ both]]
    /\ store' = store

\* cx.execute(text(sql), rows), one parameter set: the upsert of the next
\* row, once the row is not locked by the other transaction.
TxExec(w) ==
    LET t == txs.tx[w]
        row == t.rows[t.done + 1]
        seen == UpsertOne(Visible(store, t.work), DOMAIN t.rows[1], row, t.at)
        work == {r \in seen : r.datetime_utc \in Keys(t.work) \cup {row.datetime_utc}}
    IN  /\ t.pc = "open"
        /\ t.done < Len(t.rows)
        /\ ~Blocked(w, row.datetime_utc)
        /\ txs' = [txs EXCEPT !.tx[w] = [@ EXCEPT !.done = @ + 1, !.work = work]]
        /\ store' = StoreAfterExec(store, work)

\* Leaving the with block: COMMIT publishes the work and releases the locks.
TxCommit(w) ==
    LET t == txs.tx[w]
    IN  /\ t.pc = "open"
        /\ t.done = Len(t.rows)
        /\ store' = Commit(store, Visible(store, t.work))
        /\ txs' = [txs EXCEPT
                !.tx[w] = [NoTx EXCEPT !.begun = t.begun, !.commits = t.commits + 1,
                                       !.overlap = t.overlap],
                !.last = [k \in Times |->
                            IF k \in BatchTimes(t.rows) THEN LastFor(t.rows, k)
                            ELSE @[k]]]

\* A database error inside the with block: ROLLBACK discards the work and
\* releases the locks; the exception ends the run.
TxAbort(w) ==
    LET t == txs.tx[w]
    IN  /\ t.pc = "open"
        /\ store' = Rollback(store, Visible(store, t.work))
        /\ txs' = [txs EXCEPT
                !.tx[w] = [NoTx EXCEPT !.begun = MaxTx, !.commits = t.commits,
                                       !.overlap = t.overlap]]

\* A step of one of the two runs.
Writer(w) ==
    /\ (TxBegin(w) \/ TxExec(w) \/ TxCommit(w) \/ TxAbort(w))
    /\ UNCHANGED <<clock, call, fetchVars, run, conv>>

\* Tables an earlier run left behind: empty, or a row for timestamp 1.
ConcStores ==
    { {}, {[datetime_utc |-> 1, gas_mw |-> "100.0", coal_mw |-> NULL,
            ingested_at |-> 0]} }

InitConc ==
    /\ store \in ConcStores
    /\ clock = 0
    /\ call = IdleCall
    /\ upstream = {}
    /\ it = NoIter
    /\ fx = NoFetch
    /\ pages = <<>>
    /\ requests = <<>>
    /\ changed = FALSE
    /\ run = NoRun
    /\ conv = NoConv
    /\ txs = [NoTxs EXCEPT !.store0 = store]

NextConc == \E w \in Writers : Writer(w)

SpecConc == InitConc /\ [][NextConc]_vars

\* ------------------------------------------------------------------ claims

\* C1: calling upsert_rows twice in succession with the identical rows leaves
\* the store exactly as the single call left it, ingested_at included and
\* however much time passed between the two calls.
C1_Idempotent ==
    (call.op = "upsert_rows" /\ call.again) => store = call.pre

\* C1 witness: the second call of a two-row batch committed, after the
\* database clock moved past the time the rows were first inserted.
C1_Witness ==
    /\ UpsertDone /\ call.again /\ ~call.raised
    /\ Len(call.rows) = 2
    /\ \E r \in store : r.ingested_at < clock

\* C2: after any sequence of upsert_rows calls the table holds at most one
\* row per datetime_utc.
C2_OneRowPerTimestamp ==
    \A r1 \in store : \A r2 \in store :
        r1.datetime_utc = r2.datetime_utc => r1 = r2

\* C2 witness: a committed batch that carries one timestamp twice with
\* different values, that timestamp having been stored by an earlier batch.
C2_Witness ==
    /\ UpsertDone /\ ~call.raised
    /\ \E i \in 1..Len(call.rows) : \E j \in 1..Len(call.rows) :
          /\ i < j
          /\ call.rows[i].datetime_utc = call.rows[j].datetime_utc
          /\ call.rows[i] # call.rows[j]
          /\ RowsAt(call.pre, call.rows[i].datetime_utc) # {}

\* C3: a committed batch overwrites, for every timestamp T it carries that
\* was already stored, every non-key column of the batch with the incoming
\* value (NULL included), and adds no row for T: the row count grows only by
\* the timestamps that were not stored before, so it is unchanged when the
\* batch carries stored timestamps only.
C3_OverwriteExisting ==
    (UpsertDone /\ ~call.raised) =>
        /\ \A t \in BatchTimes(call.rows) \cap StoredTimes(call.pre) :
              HoldsIncoming(store, call.rows, t)
        /\ Cardinality(store) =
              Cardinality(call.pre)
                + Cardinality(BatchTimes(call.rows) \ StoredTimes(call.pre))
        /\ BatchTimes(call.rows) \subseteq StoredTimes(call.pre)
              => Cardinality(store) = Cardinality(call.pre)

\* C3 witness: a stored row with gas_mw 100.0 and coal_mw 150.0 was hit by a
\* batch carrying gas_mw 150.0 and a null coal_mw; the row count is unchanged.
C3_Witness ==
    /\ UpsertDone /\ ~call.raised
    /\ Cardinality(store) = Cardinality(call.pre)
    /\ \E old \in call.pre : \E new \in store :
          /\ old.datetime_utc = new.datetime_utc
          /\ old.gas_mw = "100.0" /\ old.coal_mw = "150.0"
          /\ new.gas_mw = "150.0" /\ new.coal_mw = NULL

\* C4: upsert_rows runs its batch in one transaction: after a call that
\* returned, every row of the batch is stored; after a call that raised, the
\* table is exactly what it was before the call.
C4_AllOrNothing ==
    UpsertDone =>
        /\ call.txn
        /\ call.raised => store = call.pre
        /\ ~call.raised =>
              \A t \in BatchTimes(call.rows) : HoldsIncoming(store, call.rows, t)

\* C4 witness: a transaction failed after executions that had changed rows.
C4_Witness ==
    UpsertDone /\ call.raised /\ call.dirty /\ store = call.pre

\* ------------------------------------------------------------------ fetcher claims
RECURSIVE SumSeq(_)
SumSeq(q) == IF q = <<>> THEN 0 ELSE Head(q) + SumSeq(Tail(q))

\* The iteration ended because a request came back empty.
EndedOnEmptyPage ==
    /\ it.pc = "done"
    /\ (pages = <<>> \/ Len(pages[Len(pages)]) >= it.batch_size)

\* C6: iter_window stops right after yielding the first page shorter than
\* batch_size, without another request; after full pages only it issues one
\* more request; an empty page is never yielded and ends the iteration.
C6_PaginationStops ==
    /\ \A i \in 1..Len(pages) : pages[i] # <<>>
    /\ \A i \in 1..(Len(pages) - 1) : Len(pages[i]) = it.batch_size
    /\ it.pc = "yielded" => Len(requests) = Len(pages)
    /\ it.pc = "raised" => Len(requests) = Len(pages) + 1
    /\ it.pc = "done" =>
         IF EndedOnEmptyPage
         THEN /\ Len(requests) = Len(pages) + 1
              /\ fx.status = "returned" /\ fx.records = <<>>
         ELSE /\ Len(requests) = Len(pages)
              /\ Len(pages[Len(pages)]) < it.batch_size

\* C6 witness: pages of sizes [2, 2, 1] with batch_size 2 were yielded by
\* exactly 3 requests and the iteration is over.
C6_Witness ==
    /\ it.pc = "done"
    /\ it.batch_size = 2
    /\ Len(pages) = 3 /\ Len(requests) = 3
    /\ Len(pages[1]) = 2 /\ Len(pages[2]) = 2 /\ Len(pages[3]) = 1

\* C7: when the upstream did not change during the iteration, the pages of a
\* finished iteration, concatenated, are exactly the upstream rows with
\* start <= DATETIME < end, each once, in ascending DATETIME order.
C7_CoversWindow ==
    (it.pc = "done" /\ ~changed /\ it.batch_size >= 1) =>
        LET got == Concat(pages)
            want == {r \in upstream : it.sql.lo <= r.ts /\ r.ts < it.sql.hi}
        IN  /\ {got[i] : i \in 1..Len(got)} = want
            /\ Len(got) = Cardinality(want)
            /\ \A i \in 1..Len(got) : \A j \in 1..Len(got) :
                 i < j => got[i].ts < got[j].ts

\* C7 witness: a finished iteration of several pages over an unchanged
\* upstream that holds a row stamped exactly start, one stamped exactly end
\* and one before start.
C7_Witness ==
    /\ it.pc = "done" /\ ~changed
    /\ Len(pages) >= 2
    /\ \E r \in upstream : r.ts = it.sql.lo
    /\ \E r \in upstream : r.ts = it.sql.hi
    /\ \E r \in upstream : r.ts < it.sql.lo

\* C8: a fetch_sql call makes at most MAX_RETRIES = 5 transport attempts; when
\* all five raise, the exception of the fifth leaves the call and reaches the
\* caller of iter_window, and nothing else makes the call raise.
C8_AtMostFiveAttempts ==
    /\ fx.attempts <= MAX_RETRIES
    /\ fx.fails >= MAX_RETRIES =>
         /\ fx.status = "raised" /\ fx.error = "RequestException"
         /\ fx.attempts = MAX_RETRIES /\ fx.erratt = MAX_RETRIES
         /\ it.pc = "raised"
    /\ fx.status = "raised" => fx.failed = MAX_RETRIES

\* C8 witness: a call whose five attempts all failed has raised.
C8_Witness ==
    fx.status = "raised" /\ fx.failed = 5 /\ fx.attempts = 5 /\ it.pc = "raised"

\* C9 as stated: every failed attempt i (from 0) is followed by a wait of
\* 2^i seconds, so that five failures give the waits 1, 2, 4, 8, 16.
C9_WaitAfterEveryFailure ==
    /\ Len(fx.sleeps) = fx.failed
    /\ \A k \in 1..Len(fx.sleeps) : fx.sleeps[k] = 2 ^ (k - 1)

\* C9 amended: a failed attempt i (from 0) is followed by a wait of 2^i
\* seconds when i < 4; the failure of the fifth attempt (i = 4) is followed
\* by no wait, the call raises at once: the waits of one call are a prefix
\* of 1, 2, 4, 8 and a wait of 16 seconds never occurs.
C9_WaitBeforeRetry ==
    /\ Len(fx.sleeps) =
         (IF fx.failed < MAX_RETRIES THEN fx.failed ELSE MAX_RETRIES - 1)
    /\ \A k \in 1..Len(fx.sleeps) : fx.sleeps[k] = 2 ^ (k - 1)
    /\ \A k \in 1..Len(fx.sleeps) : fx.sleeps[k] # 16

\* C9 witness: a call that failed five times slept 1, 2, 4, 8.
C9_Witness ==
    fx.failed = 5 /\ fx.sleeps = <<1, 2, 4, 8>>

\* C10: when the transport fails on the first 4 attempts of a fetch_sql call
\* and succeeds on the 5th, the call returns the upstream's page for the
\* request and its sleeps total 1+2+4+8 = 15 seconds.
C10_FourFailuresThenPage ==
    [][(requests' # requests /\ fx'.fails = 4) =>
          /\ fx'.status = "returned"
          /\ fx'.attempts = 5
          /\ fx'.records = Query(upstream, it'.sql, it'.batch_size, it'.offset)
          /\ (fx'.records # <<>> => it'.pc = "yielded" /\ it'.page = fx'.records)
          /\ SumSeq(fx'.sleeps) = 15]_vars

\* C10 witness: a call returned a page on its 5th attempt after 4 failures.
C10_Witness ==
    /\ fx.status = "returned" /\ fx.fails = 4 /\ fx.attempts = 5
    /\ fx.records # <<>>
    /\ it.pc = "yielded" /\ it.page = fx.records

\* C11 as stated: the error of a page fetch reaches the caller on the 6th
\* consecutive transport failure, so a call that raised has failed 6 times.
C11_PropagatesOnSixthFailure ==
    fx.status = "raised" => fx.failed = 6

\* C11 amended: the error of a page fetch reaches the caller on the 5th
\* consecutive transport failure: a call that meets five or more failures
\* in a row raises the RequestException of its fifth attempt, a sixth
\* attempt is never made, and the iteration ends with that error.
C11_PropagatesOnFifthFailure ==
    /\ fx.fails >= 5 =>
         /\ fx.status = "raised" /\ fx.error = "RequestException"
         /\ fx.erratt = 5 /\ fx.failed = 5
         /\ it.pc = "raised" /\ it.page = <<>>
    /\ fx.attempts # 6
    /\ fx.fails < 5 => fx.status # "raised"

\* C11 witness: the transport would have failed six times in a row; the call
\* raised on the fifth failure, after earlier pages had been yielded.
C11_Witness ==
    /\ fx.fails = 6 /\ fx.status = "raised" /\ fx.failed = 5
    /\ it.pc = "raised" /\ pages # <<>>

\* ------------------------------------------------------------------ run claims
\* The table that results from committing the batches fl, in order, each at
\* its database time, on top of table.
RECURSIVE ApplyFlushed(_, _)
ApplyFlushed(table, fl) ==
    IF fl = <<>> THEN table
    ELSE ApplyFlushed(
            ExecuteMany(table, DOMAIN Head(fl).rows[1], Head(fl).rows, Head(fl).at),
            Tail(fl))

\* The timestamps of the rows in the buffer of run().
BufferedTimes == {run.to_insert[i].datetime_utc : i \in 1..Len(run.to_insert)}

\* C5: when a run aborts (page fetch failed after its retries, record without
\* DATETIME, failed upsert transaction) the table is exactly the table at the
\* start of the run with the flushes that committed before the abort applied:
\* committed batches stay, the rows still in the buffer are not written.
C5_AbortKeepsCommittedOnly ==
    run.pc = "aborted" =>
        /\ run.error \in {"RequestException", "KeyError", "StorageError"}
        /\ store = ApplyFlushed(run.store0, run.flushed)
        /\ run.total_ok = SumSeq([i \in 1..Len(run.flushed) |-> Len(run.flushed[i].rows)])

\* C5 witness: a run aborted after a committed flush, holding in its buffer a
\* row whose timestamp the table does not have.
C5_Witness ==
    /\ run.pc = "aborted"
    /\ run.flushed # <<>>
    /\ store # run.store0
    /\ \E t \in BufferedTimes : RowsAt(store, t) = {}

\* The latest timestamp of a non-empty table.
Latest(table) ==
    CHOOSE t \in StoredTimes(table) : \A u \in StoredTimes(table) : u <= t

\* The window the arguments of the run ask for, before the clamp.
Requested == ComputeWindow(run.args, run.now)

\* The start the clamp may raise the requested start to.
OverlapStart == Latest(run.store0) - run.args.overlap_hours * HOUR

\* The run has its engine and its window (it is past get_engine).
Started == run.pc \notin {"idle", "exited"}
Incremental == Started /\ ~run.args.no_incremental

\* C12: the incremental clamp never changes the computed end; when the store
\* has a latest timestamp it sets start to the later of the requested start
\* and latest - overlap_hours; on an empty store, and when the clamp is
\* switched off, start is the requested start.
C12_ClampKeepsEnd ==
    Started =>
        /\ run.end = Requested.end
        /\ (Incremental /\ run.store0 # {}) =>
              /\ run.start >= Requested.start
              /\ run.start >= OverlapStart
              /\ run.start \in {Requested.start, OverlapStart}
        /\ (Incremental /\ run.store0 = {}) => run.start = Requested.start
        /\ run.args.no_incremental => run.start = Requested.start
        /\ it.sql.lo = run.start /\ it.sql.hi = run.end

\* C12 witness: an incremental run with a positive overlap whose start the
\* clamp moved past the requested start, to latest - overlap_hours.
C12_Witness ==
    /\ Incremental /\ run.store0 # {}
    /\ run.args.overlap_hours > 0
    /\ run.start > Requested.start
    /\ run.start = OverlapStart
    /\ run.end = Requested.end

\* C13 as stated: whatever the arguments and the stored latest timestamp,
\* the window handed to the fetcher is non-empty, start < end.
C13_WindowNeverEmpty ==
    Started => it.sql.lo < it.sql.hi

\* An explicit bound was given.
Explicit == run.args.start_date # NoDate \/ run.args.end_date # NoDate

\* C13 amended: the window handed to the fetcher is non-empty when the
\* requested window is (always so for a relative window with days >= 0, and
\* for explicit bounds when start_date < end_date) and the clamp does not
\* apply or latest - overlap_hours lies before the end; the window is empty
\* exactly when the requested start, or the start the clamp raises it to, is
\* not before the end.
C13_WindowNonEmptyUnlessClampedPastEnd ==
    Started =>
        /\ (~Explicit /\ run.args.days >= 0) => Requested.start < Requested.end
        /\ (/\ Requested.start < Requested.end
            /\ (Incremental /\ run.store0 # {}) => OverlapStart < Requested.end)
              => it.sql.lo < it.sql.hi
        /\ Requested.start >= Requested.end => it.sql.lo >= it.sql.hi
        /\ (Incremental /\ run.store0 # {} /\ OverlapStart >= Requested.end)
              => it.sql.lo >= it.sql.hi

\* C13 witness: a relative, incremental run against a non-empty store,
\* clamped, with a non-empty window from which a page was fetched.
C13_Witness ==
    /\ Incremental /\ ~Explicit /\ run.store0 # {}
    /\ run.start > Requested.start
    /\ it.sql.lo < it.sql.hi
    /\ pages # <<>>

\* The table holds the upstream row's current values under its timestamp.
Reconciled(table, r) ==
    \E row \in table :
        /\ row.datetime_utc = r.ts
        /\ row.gas_mw = Coerce(r.gas)
        /\ row.coal_mw = Coerce(r.coal)

\* An incremental run against a non-empty store returned.
IncrementalDone == run.pc = "done" /\ Incremental /\ run.store0 # {}

\* C14 as stated: after a successful incremental run against a non-empty
\* store, every upstream record with latest - overlap_hours <= DATETIME < end
\* was re-fetched and its stored row holds the upstream's current values.
C14_OverlapAlwaysRefetched ==
    IncrementalDone =>
        \A r \in upstream :
            (OverlapStart <= r.ts /\ r.ts < run.end) => Reconciled(store, r)

\* C14 amended: after a successful incremental run against a non-empty
\* store, every upstream record with
\* max(requested start, latest - overlap_hours) <= DATETIME < end was fetched
\* and its stored row holds the upstream's current values; a record of the
\* overlap that lies before the requested start is not fetched.
C14_OverlapRefetchedFromRequestedStart ==
    IncrementalDone =>
        /\ \A r \in upstream :
              (/\ Max(Requested.start, OverlapStart) <= r.ts
               /\ r.ts < run.end) =>
                 /\ r.ts \in FetchedTimes(pages)
                 /\ Reconciled(store, r)
        /\ \A r \in upstream :
              r.ts < Requested.start => r.ts \notin FetchedTimes(pages)

\* C14 witness: a successful incremental run with a positive overlap, clamped
\* to latest - overlap_hours, replaced the values of a row stored before the
\* run by the upstream's.
C14_Witness ==
    /\ IncrementalDone
    /\ run.args.overlap_hours > 0
    /\ run.start = OverlapStart /\ run.start > Requested.start
    /\ \E old \in run.store0 : \E r \in upstream :
          /\ old.datetime_utc = r.ts
          /\ r.ts >= OverlapStart
          /\ old \notin store
          /\ Reconciled(store, r)

\* C15 as stated: every record an aborted run fetched without committing it
\* lies inside the window of the next incremental run (same arguments,
\* upstream unchanged).
C15_LostRecordsInNextWindow ==
    run.rerun => \A t \in run.lost : run.start <= t /\ t < run.end

\* The upstream row stamped t.
UpAt(t) == CHOOSE r \in upstream : r.ts = t

\* C15 amended: after an incremental run aborts, every record it fetched
\* without committing it, and that is not older than the requested start of
\* the next incremental run (its start_date, or its own now - days), lies
\* inside that run's window; the run fetches it once the pages reach it and,
\* when it returns, has upserted it.
C15_LostRecordsRetriedFromRequestedStart ==
    (run.rerun /\ ~run.prev.no_incremental) =>
        \A t \in run.lost :
            t >= Requested.start =>
                /\ run.start <= t /\ t < run.end
                /\ run.pc \in {"final", "done"} => t \in FetchedTimes(pages)
                /\ run.pc = "done" => Reconciled(store, UpAt(t))

\* C15 witness: the run after an aborted incremental run that had committed
\* a flush returned, having upserted a record the aborted run had fetched
\* and not committed.
C15_Witness ==
    /\ run.rerun /\ ~run.prev.no_incremental
    /\ run.pc = "done"
    /\ \E t \in run.lost :
          /\ t >= Requested.start
          /\ RowsAt(run.store0, t) = {}
          /\ Reconciled(store, UpAt(t))
    /\ \E t \in StoredTimes(run.store0) : \A u \in run.lost : t < u

\* The rows the flushes fl submitted to upsert_rows, in order.
RECURSIVE Submitted(_)
Submitted(fl) == IF fl = <<>> THEN <<>> ELSE Head(fl).rows \o Submitted(Tail(fl))

\* The sum of the return values of the flushes fl.
FlushReturns(fl) == SumSeq([i \in 1..Len(fl) |-> Len(fl[i].rows)])

\* C16: a run that completes returns fetched = the number of raw records in
\* all the pages yielded and upserted = the sum of its flushes' return values,
\* and the two are equal: the rows submitted to upsert_rows are the fetched
\* records, each once, in the order fetched.
C16_FetchedEqualsUpserted ==
    run.pc = "done" =>
        /\ run.total_in = Len(Concat(pages))
        /\ run.total_ok = FlushReturns(run.flushed)
        /\ run.total_in = run.total_ok
        /\ Len(Submitted(run.flushed)) = Len(Concat(pages))
        /\ \A i \in 1..Len(Concat(pages)) :
              Submitted(run.flushed)[i].datetime_utc = Concat(pages)[i].ts

\* C16 witness: a completed run of several pages and two flushes, one in the
\* loop and one after it, with fetched = upserted.
C16_Witness ==
    /\ run.pc = "done"
    /\ Len(pages) >= 2 /\ Len(run.flushed) = 2
    /\ run.total_in = run.total_ok /\ run.total_in > BATCH_WRITE_SIZE

\* C17 as stated: the buffer is flushed and cleared as soon as it reaches the
\* threshold, so it never holds more rows than the threshold and no flush of
\* the loop submits more.
C17_BufferNeverExceedsThreshold ==
    /\ run.peak <= BATCH_WRITE_SIZE
    /\ Len(run.to_insert) <= BATCH_WRITE_SIZE
    /\ \A i \in 1..Len(run.flushed) :
          ~run.flushed[i].final => Len(run.flushed[i].rows) = BATCH_WRITE_SIZE

\* C17 amended: the threshold is tested once per page, after all its rows are
\* buffered: a buffer of BATCH_WRITE_SIZE rows or more is then flushed through
\* upsert_rows and cleared, upserted growing by the flush's return value, so
\* that the buffer is below the threshold between pages; within a page it
\* can pass the threshold, and it never holds more than
\* BATCH_WRITE_SIZE - 1 + batch_size rows.
C17_BufferFlushedAfterPage ==
    /\ run.pc \in {"body", "next", "final", "done"} =>
          Len(run.to_insert) < BATCH_WRITE_SIZE
    /\ \A i \in 1..Len(run.flushed) :
          ~run.flushed[i].final =>
             /\ Len(run.flushed[i].rows) >= BATCH_WRITE_SIZE
             /\ Len(run.flushed[i].rows) <= BATCH_WRITE_SIZE - 1 + run.args.batch_size
    /\ Started => run.peak <= BATCH_WRITE_SIZE - 1 + run.args.batch_size
    /\ run.total_ok = FlushReturns(run.flushed)

\* C17 witness: the buffer held more rows than the threshold within a page,
\* was flushed in one batch larger than the threshold and is empty again.
C17_Witness ==
    /\ run.pc = "next"
    /\ run.peak > BATCH_WRITE_SIZE
    /\ run.to_insert = <<>>
    /\ \E i \in 1..Len(run.flushed) :
          ~run.flushed[i].final /\ Len(run.flushed[i].rows) = run.peak
    /\ run.total_ok = run.peak

\* The flushes made after the loop.
FinalFlushes == {i \in 1..Len(run.flushed) : run.flushed[i].final}

\* C18: after the page stream ends run() flushes the buffer exactly once more
\* if it is non-empty and not at all if it is empty; no such flush is made
\* before the stream ends; a run whose window yields no records makes no
\* upsert and returns fetched = 0 and upserted = 0.
C18_FinalFlushOnce ==
    /\ run.pc \in {"body", "next", "final"} => FinalFlushes = {}
    /\ run.pc = "done" =>
          /\ run.to_insert # <<>> =>
                /\ FinalFlushes = {Len(run.flushed)}
                /\ run.flushed[Len(run.flushed)].rows = run.to_insert
          /\ run.to_insert = <<>> => FinalFlushes = {}
          /\ pages = <<>> =>
                /\ run.flushed = <<>>
                /\ run.total_in = 0 /\ run.total_ok = 0
                /\ store = run.store0

\* C18 witness: a completed run whose loop flushed once and whose trailing
\* rows were written by one flush after the loop.
C18_Witness ==
    /\ run.pc = "done"
    /\ run.to_insert # <<>>
    /\ Len(run.flushed) = 2
    /\ ~run.flushed[1].final /\ run.flushed[2].final
    /\ \A i \in 1..Len(run.to_insert) :
          RowsAt(store, run.to_insert[i].datetime_utc) # {}

\* The positions <<i, j>> of the fetched records that lack DATETIME.
NoDatetime ==
    {p \in (1..Len(pages)) \X (1..MaxUp + 1) :
        p[2] <= Len(pages[p[1]]) /\ pages[p[1]][p[2]].nodt}

\* C19: a raw record without DATETIME makes validate_raw raise KeyError and
\* run() abort with it: once its page is handled the run has aborted, neither
\* that record nor any record after it is buffered or written, and no further
\* page is requested.
C19_MissingDatetimeAborts ==
    /\ \A p \in NoDatetime :
          /\ p[1] = Len(pages)
          /\ run.pc = "body" \/ (run.pc = "aborted" /\ run.error = "KeyError")
          /\ \A t \in BufferedTimes \cup CommittedTimes(run.flushed) :
                t < pages[p[1]][p[2]].ts
          /\ run.total_ok = FlushReturns(run.flushed)
          /\ Len(requests) = Len(pages)
    /\ (run.pc = "aborted" /\ run.error = "KeyError") => NoDatetime # {}

\* C19 witness: a run aborted with KeyError on a record that is not the last
\* of its page, with the rows of an earlier page in its buffer.
C19_Witness ==
    /\ run.pc = "aborted" /\ run.error = "KeyError"
    /\ Len(pages) >= 2
    /\ run.to_insert # <<>>
    /\ \E p \in NoDatetime : p[2] < Len(pages[p[1]])

\* run() was called in an environment without a usable DB_URL.
NoDbUrl == run.pc # "idle" /\ run.db_url \in {PyNone, ""}

\* C24: with DB_URL unset, get_engine reports an error and the process
\* exits with code 2; in a run this happens before any upstream request and
\* before any database operation: nothing was requested, the latest
\* timestamp was not queried, nothing was written.
C24_MissingDbUrlExitsBeforeIO ==
    /\ NoDbUrl =>
          /\ run.pc = "exited" /\ run.exit = 2
          /\ run.stderr = "ERROR: DB_URL is not set"
          /\ requests = <<>> /\ pages = <<>> /\ fx = NoFetch
          /\ ~run.queried
          /\ run.flushed = <<>> /\ store = run.store0
    /\ run.pc = "exited" => NoDbUrl

\* C24 witness: an incremental run over a window with upstream rows and a
\* non-empty store exited for want of DB_URL.
C24_Witness ==
    /\ run.pc = "exited" /\ run.db_url = PyNone
    /\ ~run.args.no_incremental
    /\ store # {}
    /\ \E r \in upstream :
          ComputeWindow(run.args, run.now).start <= r.ts
              /\ r.ts < ComputeWindow(run.args, run.now).end

\* The hour a wall-clock time lies in, and the start of that hour.
HourOf(t) == t \div HOUR
HourStart(t) == HourOf(t) * HOUR

\* The start and end the arguments ask for: the instant 2 when given
\* explicitly (in either notation), else relative to the start of the hour.
AskedStart ==
    IF run.args.start_date # NoDate THEN 2 ELSE HourStart(run.now) - run.args.days * DAY
AskedEnd ==
    IF run.args.end_date # NoDate THEN 2 ELSE HourStart(run.now) + CUSHION

\* C29: with no_incremental set, run() does not query the store's latest
\* timestamp, and the window start is exactly as computed (the explicit
\* start_date, or the hour-aligned now minus days) whatever the store holds.
C29_NoIncrementalSkipsClamp ==
    (Started /\ run.args.no_incremental) =>
        /\ ~run.queried
        /\ run.start = AskedStart
        /\ it.sql.lo = AskedStart

\* C29 witness: a run with no_incremental returned although the store held
\* a latest timestamp, less the overlap, beyond the computed start.
C29_Witness ==
    /\ run.pc = "done" /\ run.args.no_incremental
    /\ run.store0 # {}
    /\ OverlapStart > run.start
    /\ run.total_ok > 0

\* The run follows another in the same UTC hour, at a different time, with
\* the same no_incremental (RunAgain keeps the other arguments) and the same
\* latest stored timestamp.
SameHourSameInputs ==
    /\ Started /\ run.rerun
    /\ HourOf(run.now) = HourOf(run.prev.now) /\ run.now # run.prev.now
    /\ run.args.no_incremental = run.prev.no_incremental
    /\ get_max_dt(run.store0) = run.prev.latest

\* C30: two runs started within the same UTC hour with the same arguments
\* against a store with the same latest timestamp compute the same window:
\* end is the hour-aligned now plus 30 minutes (or the explicit end), start
\* is the hour-aligned now minus days (or the explicit start), raised by the
\* same clamp in both.
C30_SameHourSameWindow ==
    SameHourSameInputs =>
        /\ run.start = run.prev.start /\ run.end = run.prev.end
        /\ run.end = AskedEnd
        /\ run.start >= AskedStart
        /\ run.store0 = {} => run.start = AskedStart

\* C30 witness: a relative window computed twice in one hour, at two
\* different times, against a non-empty store.
C30_Witness ==
    /\ SameHourSameInputs
    /\ run.args.start_date = NoDate /\ run.args.end_date = NoDate
    /\ run.args.days = 1
    /\ run.store0 # {}

\* ------------------------------------------------------------------ fetcher claims, continued
\* The number of records in the first n pages.
RECURSIVE RecordsIn(_, _)
RecordsIn(ps, n) == IF n = 0 THEN 0 ELSE RecordsIn(ps, n - 1) + Len(ps[n])

\* C26: within one iter_window call the k-th page request uses
\* LIMIT = batch_size and OFFSET = the number of records in the pages
\* yielded so far (0 for the first request), against the same base query;
\* every new call starts again at offset 0.
C26_OffsetIsRecordsYielded ==
    \A k \in 1..Len(requests) :
        /\ requests[k].limit = it.batch_size
        /\ k - 1 <= Len(pages)
        /\ requests[k].offset = RecordsIn(pages, k - 1)
        /\ requests[k].sql = requests[1].sql
        /\ requests[1].offset = 0

\* C26 witness: a second call of iter_window, made after a first call had
\* advanced its offset, is at its third request, after two full pages of
\* two records.
C26_Witness ==
    /\ it.prior # <<>> /\ it.prior[1] > 0
    /\ Len(requests) = 3 /\ Len(pages) >= 2
    /\ requests[1].offset = 0 /\ requests[2].offset = 2 /\ requests[3].offset = 4

\* ------------------------------------------------------------------ store claims, continued
\* C27: upsert_rows on a non-empty batch returns the number of rows passed
\* in, len(rows), whether each row inserted a new timestamp or updated an
\* existing one.
C27_ReturnsRowsSubmitted ==
    (UpsertDone /\ ~call.raised) => call.ret = Len(call.rows)

\* C27 witness: a committed batch of two rows, the first for a stored
\* timestamp and the second for a new one, so that one row was added.
C27_Witness ==
    /\ UpsertDone /\ ~call.raised
    /\ Len(call.rows) = 2 /\ call.ret = 2
    /\ call.rows[1].datetime_utc \in StoredTimes(call.pre)
    /\ call.rows[2].datetime_utc \notin StoredTimes(call.pre)
    /\ Cardinality(store) = Cardinality(call.pre) + 1

\* C28: upsert_rows on an empty list returns 0 without opening a transaction
\* or executing a statement, and leaves the store unchanged.
C28_EmptyBatchIsNoOp ==
    (call.op = "upsert_rows" /\ call.rows = <<>>) =>
        /\ call.ret = 0 /\ ~call.raised
        /\ ~call.txn
        /\ store = call.pre

\* C28 witness: upsert_rows([]) returned against a store that holds rows.
C28_Witness ==
    /\ call.op = "upsert_rows" /\ call.rows = <<>>
    /\ call.pre # {}

\* ------------------------------------------------------------------ concurrency claims
\* C25: when two runs write to the same store concurrently, their writes
\* interleave only at the granularity of batch transactions: in every
\* reachable state there is at most one row per timestamp, and each stored
\* row carries, in every column a batch writes, the values of the last
\* committed batch that contained its timestamp (a timestamp no batch
\* committed is as the runs found it), never columns of two writers.
C25_LastCommittedBatchWins ==
    \A t \in Times :
        /\ Cardinality(RowsAt(store, t)) <= 1
        /\ IF txs.last[t] = NoRow
           THEN RowsAt(store, t) = RowsAt(txs.store0, t)
           ELSE /\ RowsAt(store, t) # {}
                /\ \A r \in RowsAt(store, t) :
                      \A c \in MetricCols : r[c] = txs.last[t][c]

\* C25 witness: each run committed a batch, the second one of two rows
\* and while the other's transaction was open, and the first run has since
\* written, in its next transaction and not yet committed, a row for a
\* timestamp whose stored row is the other run's.
C25_Witness ==
    /\ txs.tx["A"].commits = 1 /\ txs.tx["B"].commits = 1
    /\ txs.tx["B"].overlap
    /\ Cardinality({t \in Times : txs.last[t] = WriterRow("B", t)}) >= 2
    /\ txs.tx["A"].pc = "open" /\ txs.tx["A"].begun = 2
    /\ txs.tx["A"].work # {}
    /\ \E t \in Keys(txs.tx["A"].work) :
          /\ txs.last[t] = WriterRow("B", t)
          /\ \A r \in RowsAt(store, t) : r.gas_mw = WriterRow("B", t).gas_mw

\* ------------------------------------------------------------------ validator claims
\* validate_raw was called on a record with a valid timestamp that carries a
\* value, of whatever kind, for every recognized field.
ValidatedFull ==
    /\ conv.op = "validate_raw"
    /\ "DATETIME" \in DOMAIN conv.rec
    /\ NUMERIC_KEYS \subseteq DOMAIN conv.rec

\* C20: for every raw record with a valid timestamp and any mixture of
\* numeric, blank or garbage values in its fields, validate_raw does not
\* raise, and every key of NUMERIC_KEYS is in the payload as a float or null.
C20_ValidatorNeverRaises ==
    ValidatedFull =>
        /\ ~conv.out.raised
        /\ \A k \in NUMERIC_KEYS :
              /\ k \in DOMAIN conv.out.payload
              /\ conv.out.payload[k] \in Floats \cup {NULL}

\* validate_raw was called and returned a record.
Validated == conv.op = "validate_raw" /\ ~conv.out.raised

\* What a raw value is expected to become: null for None, blank and text or
\* structures that are no number, the number itself otherwise.
Expected(v) ==
    CASE v \in {PyNone, "", "n/a", JsonArray} -> NULL
      [] v = "100" -> "100.0"
      [] v = " 150 " -> "150.0"
      [] OTHER -> "unexpected"

\* C21: the payload validate_raw produces has as its key set exactly the raw
\* record's keys that are in NUMERIC_KEYS (DATETIME and unknown keys are
\* dropped); each value is null when the raw value is null, an empty string
\* or not parsable as a float, and the parsed float otherwise.
C21_PayloadIsAllowListedAndCoerced ==
    Validated =>
        /\ DOMAIN conv.out.payload = DOMAIN conv.rec \cap NUMERIC_KEYS
        /\ \A k \in DOMAIN conv.out.payload :
              conv.out.payload[k] = Expected(conv.rec[k])

\* C21 witness: a record with DATETIME, _id, a padded number and a text that
\* is no number was validated.
C21_Witness ==
    /\ Validated
    /\ DOMAIN conv.rec = {"DATETIME", "_id", "GAS", "COAL"}
    /\ conv.rec["GAS"] = " 150 " /\ conv.rec["COAL"] = "n/a"
    /\ conv.out.payload["GAS"] = "150.0" /\ conv.out.payload["COAL"] = NULL

\* C22: for every payload, to_row returns a value (it has no failing path)
\* whose key set is exactly the warehouse's metric columns, the values of
\* MAP_KEYS; each column holds the payload's value for its upstream key
\* unchanged, or null when the payload lacks that key.
C22_RowHasEveryWarehouseColumn ==
    conv.op = "to_row" =>
        /\ DOMAIN conv.out = MetricCols
        /\ \A src \in DOMAIN MAP_KEYS :
              conv.out[MAP_KEYS[src]] =
                  (IF src \in DOMAIN conv.rec THEN conv.rec[src] ELSE NULL)

\* C22 witness: to_row was given a payload with a float for GAS, nothing
\* for COAL and a key it does not map.
C22_Witness ==
    /\ conv.op = "to_row"
    /\ DOMAIN conv.rec = {"GAS", "UNKNOWN"}
    /\ conv.rec["GAS"] = "100.0"
    /\ conv.out["gas_mw"] = "100.0" /\ conv.out["coal_mw"] = NULL

\* C23: for an ISO-8601 string, with or without a trailing Z or an offset,
\* and for an already-typed timestamp, the datetime_utc of the record
\* validate_raw returns is a timezone-aware value in UTC.
C23_TimestampAlwaysAwareUtc ==
    Validated =>
        /\ conv.out.datetime_utc.kind = "datetime"
        /\ conv.out.datetime_utc.tz = UTC

\* ------------------------------------------------------------------ run claims, continued
\* run() is between its first page request and its return.
InRun == run.pc \in {"body", "next", "final"}

\* C31: within one run the events occur in the order ComputeWindow, then
\* (incremental only) the latest-timestamp query, then page requests and
\* flushes, then the final flush, then Done.  Step by step: a run starts with
\* window, query (iff incremental) and first request, before any write; the
\* window and the query are not repeated later; a further page is requested
\* only when every record fetched so far is buffered or committed and a due
\* threshold flush has committed; a threshold flush happens only in the loop
\* body and the final flush only after the page stream has ended; Done
\* follows the final-flush step.
C31_RunOrder ==
    [][/\ (run.pc \in {"idle", "aborted"} /\ run' # run) =>
             /\ run'.flushed = <<>> /\ store' = store
             /\ run'.pc # "exited" =>
                   /\ run'.queried = ~run'.args.no_incremental
                   /\ run'.start = Clamp(ComputeWindow(run'.args, run'.now).start,
                                         run'.args, store)
                   /\ Len(requests') = 1
                   /\ requests'[1].sql.lo = run'.start
                   /\ requests'[1].sql.hi = run'.end
       /\ InRun =>
             /\ run'.queried = run.queried
             /\ run'.start = run.start /\ run'.end = run.end
       /\ (InRun /\ Len(requests') > Len(requests)) =>
             /\ run.pc = "next"
             /\ run.total_in = Len(Concat(pages))
             /\ Len(Submitted(run.flushed)) + Len(run.to_insert) = Len(Concat(pages))
             /\ ~FlushDue(run.to_insert)
             /\ store = ApplyFlushed(run.store0, run.flushed)
       /\ Len(run'.flushed) > Len(run.flushed) =>
             /\ ~run.args.no_incremental => run.queried
             /\ Len(run'.flushed) = Len(run.flushed) + 1
             /\ IF run'.flushed[Len(run'.flushed)].final
                THEN run.pc = "final" /\ it.pc = "done" /\ run'.pc = "done"
                ELSE run.pc = "body" /\ run'.pc = "next"
       /\ (run'.pc = "done" /\ run.pc # "done") =>
             /\ run.pc = "final" /\ it.pc = "done"
             /\ requests' = requests]_vars

\* C31 witness: an incremental run against a non-empty store returned after
\* two pages or more, a threshold flush and the final flush.
C31_Witness ==
    /\ run.pc = "done" /\ ~run.args.no_incremental /\ run.queried
    /\ run.store0 # {}
    /\ Len(pages) >= 2 /\ Len(requests) >= 3
    /\ Len(run.flushed) = 2
    /\ ~run.flushed[1].final /\ run.flushed[2].final

\* C32: with a finite upstream result set and a transport whose attempts
\* each succeed or fail, every run terminates: it reaches Done and returns
\* its stats, or raises; no page request makes more than 5 attempts, so no
\* page is retried forever.
C32_RunTerminates ==
    /\ [](fx.attempts <= 5)
    /\ (InRun ~> (run.pc \in {"done", "aborted"}))

\* C32 witness: a run raised after the request for a later page had failed
\* on each of its 5 attempts.
C32_Witness ==
    /\ run.pc = "aborted" /\ run.error = "RequestException"
    /\ fx.status = "raised" /\ fx.attempts = 5
    /\ Len(pages) >= 1 /\ Len(requests) = Len(pages) + 1

\* ------------------------------------------------------------------ store claims, frame
\* The rows of a table whose timestamp the batch does not carry.
Outside(table, rows) == {r \in table : r.datetime_utc \notin BatchTimes(rows)}

\* C33: no step of the store deletes a row, and a call of upsert_rows leaves
\* every row whose datetime_utc is not in its batch exactly as it was; so
\* the number of stored rows and get_max_dt never decrease.
C33_NeverDeletes ==
    [][ /\ StoredTimes(store) \subseteq StoredTimes(store')
        /\ call'.op = "upsert_rows" => Outside(store, call'.rows) = Outside(store', call'.rows)
        /\ call'.op # "upsert_rows" => store' = store
        /\ Cardinality(store') >= Cardinality(store)
        /\ get_max_dt(store') >= get_max_dt(store) ]_vars

\* C33 witness: a committed batch of one timestamp updated a stored row and
\* left a later-stamped row, stored by an earlier call, as it was.
C33_Witness ==
    /\ UpsertDone /\ ~call.raised
    /\ Cardinality(BatchTimes(call.rows)) = 1
    /\ \E old \in call.pre : old.datetime_utc \in BatchTimes(call.rows) /\ old \notin store
    /\ \E r \in call.pre :
          /\ r.datetime_utc \notin BatchTimes(call.rows)
          /\ r.datetime_utc = get_max_dt(call.pre)
          /\ r \in store

\* ------------------------------------------------------------------ run claims, buffer
\* The step of run() that processes the page just yielded.
PageStep == run.pc = "body" /\ run' # run

\* C34: the flush threshold is tested only after a whole page has been
\* appended.  A page is entered with fewer than BATCH_WRITE_SIZE rows in the
\* buffer and, unless an exception ends the run, left so; while it is
\* processed the buffer holds at most BATCH_WRITE_SIZE - 1 rows plus the rows
\* of the page, and a batch flushed in the loop is the buffer with every row
\* of the page appended.
C34_ThresholdTestedPerPage ==
    [][ /\ run'.pc \in {"body", "next", "final", "done"} =>
              Len(run'.to_insert) < BATCH_WRITE_SIZE
        /\ PageStep =>
              /\ Len(run.to_insert) < BATCH_WRITE_SIZE
              /\ Len(run'.to_insert) <= BATCH_WRITE_SIZE - 1 + Len(it.page)
              /\ run'.peak <= Max(run.peak, BATCH_WRITE_SIZE - 1 + Len(it.page))
              /\ IF Len(run'.flushed) > Len(run.flushed)
                 THEN /\ Len(run'.flushed[Len(run'.flushed)].rows)
                            = Len(run.to_insert) + Len(it.page)
                      /\ Len(run.to_insert) + Len(it.page) >= BATCH_WRITE_SIZE
                      /\ run'.to_insert = <<>>
                 ELSE run'.pc = "next" =>
                        /\ Len(run'.to_insert) = Len(run.to_insert) + Len(it.page)
                        /\ run'.flushed = run.flushed ]_vars

\* C34 witness: a page shorter than batch_size brought the buffer to the
\* threshold exactly; the buffer was flushed with that page's row in it and
\* is empty when the next page is asked for.
C34_Witness ==
    /\ run.pc = "next"
    /\ run.to_insert = <<>>
    /\ Len(pages) = 2
    /\ it.page = pages[2]
    /\ Len(it.page) < run.args.batch_size
    /\ Len(run.flushed) = 1
    /\ ~run.flushed[1].final
    /\ Len(run.flushed[1].rows) = BATCH_WRITE_SIZE
    /\ Len(run.flushed[1].rows) = Len(pages[1]) + Len(pages[2])

\* ------------------------------------------------------------------ run claims, duplicates
\* The raw records of the run's pages, in the order fetched.
Fetched == Concat(pages)

\* The positions in the fetch order at which timestamp t was delivered.
DeliveriesOf(t) == {i \in 1..Len(Fetched) : Fetched[i].ts = t}

\* The record fetched last for timestamp t.
LastFetched(t) == Fetched[CHOOSE i \in DeliveriesOf(t) : \A j \in DeliveriesOf(t) : j <= i]

\* The row run() builds from a raw record.
RowFrom(rec) == RowOf(validate_raw(Json(rec)))

\* C35: the rows of a completed run are upserted in the order their records
\* were fetched, and for every timestamp delivered, once or several times,
\* the stored row holds the values of the record fetched last.
C35_LastFetchedWins ==
    run.pc = "done" =>
        /\ Len(Submitted(run.flushed)) = Len(Fetched)
        /\ \A i \in 1..Len(Fetched) : Submitted(run.flushed)[i] = RowFrom(Fetched[i])
        /\ \A t \in FetchedTimes(pages) :
              /\ RowsAt(store, t) # {}
              /\ \A r \in RowsAt(store, t) : \A c \in MetricCols :
                    r[c] = RowFrom(LastFetched(t))[c]

\* C35 witness: the upstream changed between two page requests, a timestamp
\* was delivered as the last record of one page and again, with another GAS
\* value, as the first record of the next, and the completed run left the
\* second value in the store.
C35_Witness ==
    /\ run.pc = "done"
    /\ changed
    /\ \E k \in 1..(Len(pages) - 1) :
          LET a == pages[k][Len(pages[k])]
              b == pages[k + 1][1]
          IN  /\ a.ts = b.ts
              /\ RowFrom(a).gas_mw # RowFrom(b).gas_mw
              /\ \A r \in RowsAt(store, a.ts) : r.gas_mw = RowFrom(b).gas_mw
              /\ RowsAt(store, a.ts) # {}
              /\ Cardinality(DeliveriesOf(a.ts)) = 2

\* ------------------------------------------------------------------ run claims, row shape
\* The warehouse columns of MAP_KEYS.
MappedCols == {MAP_KEYS[k] : k \in DOMAIN MAP_KEYS}

\* Every row of the sequence has datetime_utc and the mapped columns as keys.
WarehouseShaped(rows) ==
    \A i \in 1..Len(rows) : DOMAIN rows[i] = {KeyCol} \cup MappedCols

\* C36: every row in run()'s buffer has the key set datetime_utc plus the
\* warehouse columns of MAP_KEYS, whatever fields its raw record carried, and
\* so has every row of every batch passed to upsert_rows: the rows of a
\* batch share the keys of its first row.
C36_RowsShareKeySet ==
    /\ WarehouseShaped(run.to_insert)
    /\ \A i \in 1..Len(run.flushed) :
          /\ WarehouseShaped(run.flushed[i].rows)
          /\ StatementOk(DOMAIN run.flushed[i].rows[1], run.flushed[i].rows)
          /\ \A j \in 1..Len(run.flushed[i].rows) :
                DOMAIN run.flushed[i].rows[j] = DOMAIN run.flushed[i].rows[1]

\* C36 witness: one committed batch holds the rows of two records with
\* different fields, one delivered with COAL and one without.
C36_Witness ==
    /\ run.pc = "done"
    /\ \E i \in 1..Len(run.flushed) :
          \E a \in 1..Len(run.flushed[i].rows) : \E b \in 1..Len(run.flushed[i].rows) :
             /\ "COAL" \in DOMAIN Json(UpAt(run.flushed[i].rows[a].datetime_utc))
             /\ "COAL" \notin DOMAIN Json(UpAt(run.flushed[i].rows[b].datetime_utc))
             /\ run.flushed[i].rows[b].coal_mw = NULL
             /\ RowsAt(store, run.flushed[i].rows[b].datetime_utc) # {}

\* ------------------------------------------------------------------ store claims, columns
\* The rows of a table that share their timestamp with row r.
SameKey(table, r) == {q \in table : q.datetime_utc = r.datetime_utc}

\* C37: an upsert that hits a stored timestamp changes only the columns the
\* batch rows carry: a column they do not carry, ingested_at, keeps the
\* value it got when the row was first inserted, which is the time of that
\* insert.
C37_UpdateKeepsOtherColumns ==
    [][ (call'.op = "upsert_rows" /\ call'.rows # <<>>) =>
          \A new \in store' :
             IF SameKey(store, new) # {}
             THEN \A old \in SameKey(store, new) :
                     \A c \in TableCols \ DOMAIN call'.rows[1] : new[c] = old[c]
             ELSE new.ingested_at = clock ]_vars

\* C37 witness: a row inserted by an earlier call was hit, after the clock
\* had moved on, by a batch with another gas_mw value; it holds the new
\* value and the ingested_at of its insert.
C37_Witness ==
    /\ UpsertDone /\ ~call.raised /\ ~call.again
    /\ \E old \in call.pre : \E new \in store :
          /\ old.datetime_utc = new.datetime_utc
          /\ old.gas_mw # new.gas_mw
          /\ new.gas_mw = LastFor(call.rows, new.datetime_utc).gas_mw
          /\ old.ingested_at < clock
          /\ new.ingested_at = old.ingested_at

\* ------------------------------------------------------------------ validator claims, mapping
\* The warehouse columns the keys of a payload are mapped to.
ColumnsOf(payload) == {MAP_KEYS[k] : k \in DOMAIN payload}

====
